---- MODULE Spec2Model ----
(***************************************************************************)
(* Best Ball Blitz: the data model (src/js/dataModel.js) and the handlers  *)
(* of the app controller (src/js/appController.js) as a state machine.     *)
(*                                                                         *)
(* Conventions                                                             *)
(*  - JavaScript arrays are sequences; a JavaScript index i is the         *)
(*    sequence index i + 1.                                                *)
(*  - holeAssignments, an object keyed by the hole number as a string, is  *)
(*    a function whose DOMAIN is the set of keys present.                  *)
(*  - Player objects carry a reference `ref`: two players are the same     *)
(*    object (===) iff they are the same record.                           *)
(*  - Handicaps are fixed-point numbers in tenths (10.5 is 105).           *)
(*  - Texts (names, handicap inputs) are sequences of one-character        *)
(*    strings.  displayHandicap, a string derived from handicap and        *)
(*    isPlus that no operation reads, is not stored.                       *)
(*  - awaitingAnimation counts the selectTeamHandler calls suspended at    *)
(*    their await of the selection animation.                              *)
(*  - ret names the last data-model call and what it returned (or threw); *)
(*    where a specification draws the arguments of one call in its initial *)
(*    state, ret holds them as the pending call.                           *)
(***************************************************************************)
EXTENDS Integers, Sequences, FiniteSets, TLC

VARIABLES players, groups, teams, holeAssignments, settings,
          interactiveDraftState, localStorage, isGrouped, awaitingAnimation, nextRef, ret

dataVars == <<players, groups, teams, holeAssignments, settings, interactiveDraftState>>
vars == <<players, groups, teams, holeAssignments, settings,
          interactiveDraftState, localStorage, isGrouped, awaitingAnimation, nextRef, ret>>

(***************************************************************************)
(* Bounds of the model                                                     *)
(***************************************************************************)
\* largest team list of the hole-assignment specification
MaxTeams == 30
\* manual assignTeamToHole / removeTeamFromHole calls use team ids 1..MaxManualTeamId
MaxManualTeamId == 3
\* team lists up to this length are shuffled with every outcome of Math.random
MaxFullShuffle == 3
\* longer team lists are shuffled with the random streams 0..MaxStream
MaxStream == 3
\* longest player registry of the grouping specification
MaxGroupPlayers == 7
\* SpecStore: players in the registry, addPlayer calls that succeed, teams
MaxPlayers == 4
MaxAdds == 3
MaxStoreTeams == 1
\* SpecValidate: longest handicap text entered
MaxTextLen == 3
\* SpecRemove: players in the registry at the start
MaxRemovePlayers == 5
\* SpecCsv: lines of the CSV text imported
MaxCsvLines == 3
\* SpecTee: teams formed, and team ids put on holes
MaxTeeTeams == 3
\* SpecBalance: players in the registry; the team list holds up to as many
\* teams as these players fill
MaxBalancePlayers == 8
MaxBalanceTeams == MaxBalancePlayers \div 4
\* SpecPersist: players in the registry, teams in the team list
MaxPersistPlayers == 4
MaxPersistTeams == 1
\* SpecSession: players in the registry, teams in the team list, team
\* selections in their animation at one time
MaxSessionPlayers == 5
MaxSessionTeams == MaxSessionPlayers \div 4
MaxAwaiting == 2
\* SpecDraft: players in the registry; the team list holds up to as many
\* teams as these players fill
MaxDraftPlayers == 8
MaxDraftTeams == MaxDraftPlayers \div 4
\* the holes of the manual calls: two invalid numbers, a normal hole and two
\* double-stacked holes (auto and random assignment use all of 1..18)
ManualHoles == {0, 1, 3, 18, 19}

(***************************************************************************)
(* Program constants                                                       *)
(***************************************************************************)
NumHoles == 18
doubleStackedHoles == {3, 4, 6, 7, 8, 10, 12, 13, 16, 18}
GroupLetters == <<"A", "B", "C", "D">>

NoDraft == [exists |-> FALSE]
NoStorage == [present |-> FALSE]

emptyGroups == [g \in {"A", "B", "C", "D"} |-> <<>>]
defaultSettings ==
    [balanceTeams |-> FALSE, maxHandicapDiff |-> 5, startFormat |-> "sequential",
     startTime |-> 480, timeInterval |-> 10]
emptyAssignments == [h \in {} |-> <<>>]

(***************************************************************************)
(* Generic helpers                                                         *)
(***************************************************************************)
Min(a, b) == IF a <= b THEN a ELSE b
Range(s) == {s[i] : i \in 1..Len(s)}
\* Array.prototype.includes
Includes(s, x) == \E i \in 1..Len(s) : s[i] = x
\* Array.prototype.filter(id => id !== x)
RECURSIVE FilterOut(_, _)
FilterOut(s, x) ==
    IF s = <<>> THEN <<>>
    ELSE IF Head(s) = x THEN FilterOut(Tail(s), x)
         ELSE <<Head(s)>> \o FilterOut(Tail(s), x)
\* Array.prototype.splice(i, 1) with the 1-based index i
RemoveAt(s, i) == SubSeq(s, 1, i - 1) \o SubSeq(s, i + 1, Len(s))

Ret(op, ok) == [op |-> op, ok |-> ok, threw |-> FALSE]
Threw(op) == [op |-> op, ok |-> FALSE, threw |-> TRUE]

(***************************************************************************)
(* Players and teams                                                       *)
(***************************************************************************)
getNumericHandicap(player) ==
    IF player.isPlus THEN 0 - player.handicap ELSE player.handicap

RECURSIVE SumHandicaps(_)
SumHandicaps(members) ==
    IF members = <<>> THEN 0
    ELSE getNumericHandicap(Head(members)) + SumHandicaps(Tail(members))

\* a null member (an empty draft slot) counts 0, as its handicap is 0 here
calculateTeamHandicap(members) == SumHandicaps(members)

(***************************************************************************)
(* Hole assignment scheduler                                               *)
(***************************************************************************)
\* the list of a hole, `_data.holeAssignments[holeStr] || []`
TeamsOnHole(ha, hole) == IF hole \in DOMAIN ha THEN ha[hole] ELSE <<>>

\* the holes whose list holds teamId
HolesOf(ha, teamId) == {h \in DOMAIN ha : Includes(ha[h], teamId)}

\* mutant: every hole takes two teams
maxTeamsAlwaysTwo(hole) == 2

maxTeamsOf(hole) == IF hole \in doubleStackedHoles THEN 2 ELSE 1

\* !teamId || !hole || hole < 1 || hole > 18
InvalidInput(teamId, hole) ==
    teamId = 0 \/ hole = 0 \/ hole < 1 \/ hole > NumHoles

\* the object with the key hole set to list
SetHole(ha, hole, list) ==
    [h \in DOMAIN ha \cup {hole} |-> IF h = hole THEN list ELSE ha[h]]

\* the object with the key hole deleted
DeleteHole(ha, hole) == [h \in DOMAIN ha \ {hole} |-> ha[h]]

\* mutant: the check that the team is already on a hole is left out
AssignResultNoAssignedCheck(ha, teamId, hole) ==
    IF InvalidInput(teamId, hole) THEN [ok |-> FALSE, ha |-> ha]
    ELSE IF Len(TeamsOnHole(ha, hole)) >= maxTeamsOf(hole) THEN [ok |-> FALSE, ha |-> ha]
    ELSE [ok |-> TRUE, ha |-> SetHole(ha, hole, Append(TeamsOnHole(ha, hole), teamId))]

\* mutant: the capacity test is > instead of >=
AssignResultOffByOne(ha, teamId, hole) ==
    IF InvalidInput(teamId, hole) THEN [ok |-> FALSE, ha |-> ha]
    ELSE IF HolesOf(ha, teamId) # {} THEN [ok |-> FALSE, ha |-> ha]
    ELSE IF Len(TeamsOnHole(ha, hole)) > maxTeamsOf(hole) THEN [ok |-> FALSE, ha |-> ha]
    ELSE [ok |-> TRUE, ha |-> SetHole(ha, hole, Append(TeamsOnHole(ha, hole), teamId))]

\* assignTeamToHole as a function of the assignments: the result and the
\* assignments after the call
AssignResult(ha, teamId, hole) ==
    IF InvalidInput(teamId, hole) THEN [ok |-> FALSE, ha |-> ha]
    ELSE IF HolesOf(ha, teamId) # {} THEN [ok |-> FALSE, ha |-> ha]
    ELSE IF Len(TeamsOnHole(ha, hole)) >= maxTeamsOf(hole) THEN [ok |-> FALSE, ha |-> ha]
    ELSE [ok |-> TRUE, ha |-> SetHole(ha, hole, Append(TeamsOnHole(ha, hole), teamId))]

\* mutant: the key of an emptied hole is not deleted
RemoveResultKeepsKey(ha, teamId, hole) ==
    IF InvalidInput(teamId, hole) THEN [ok |-> FALSE, ha |-> ha]
    ELSE IF hole \notin DOMAIN ha \/ ~Includes(ha[hole], teamId) THEN [ok |-> FALSE, ha |-> ha]
    ELSE [ok |-> TRUE, ha |-> SetHole(ha, hole, FilterOut(ha[hole], teamId))]

\* removeTeamFromHole as a function of the assignments
RemoveResult(ha, teamId, hole) ==
    IF InvalidInput(teamId, hole) THEN [ok |-> FALSE, ha |-> ha]
    ELSE IF hole \notin DOMAIN ha \/ ~Includes(ha[hole], teamId) THEN [ok |-> FALSE, ha |-> ha]
    ELSE LET rest == FilterOut(ha[hole], teamId)
         IN  [ok |-> TRUE,
              ha |-> IF Len(rest) = 0 THEN DeleteHole(ha, hole) ELSE SetHole(ha, hole, rest)]

getAssignedTeamIds(ha) == UNION {Range(ha[h]) : h \in DOMAIN ha}

RECURSIVE FilterUnassigned(_, _)
FilterUnassigned(ts, assignedIds) ==
    IF ts = <<>> THEN <<>>
    ELSE IF Head(ts).id \in assignedIds THEN FilterUnassigned(Tail(ts), assignedIds)
         ELSE <<Head(ts)>> \o FilterUnassigned(Tail(ts), assignedIds)

getUnassignedTeamsInternal(ha, ts) == FilterUnassigned(ts, getAssignedTeamIds(ha))

\* first pass of autoAssignTeams from `hole` on, teamIndex being the 0-based
\* cursor into teamsToAssign
RECURSIVE FirstPass(_, _, _, _)
FirstPass(ha, teamsToAssign, hole, teamIndex) ==
    IF hole > NumHoles \/ teamIndex >= Len(teamsToAssign)
    THEN [ha |-> ha, teamIndex |-> teamIndex]
    ELSE LET r == AssignResult(ha, teamsToAssign[teamIndex + 1].id, hole)
         IN  IF r.ok THEN FirstPass(r.ha, teamsToAssign, hole + 1, teamIndex + 1)
             ELSE FirstPass(ha, teamsToAssign, hole + 1, teamIndex)

\* second pass: the double-stacked holes that hold fewer than two teams
RECURSIVE SecondPass(_, _, _, _)
SecondPass(ha, teamsToAssign, hole, teamIndex) ==
    IF hole > NumHoles \/ teamIndex >= Len(teamsToAssign)
    THEN [ha |-> ha, teamIndex |-> teamIndex]
    ELSE IF hole \in doubleStackedHoles /\ Len(TeamsOnHole(ha, hole)) < 2
    THEN LET r == AssignResult(ha, teamsToAssign[teamIndex + 1].id, hole)
         IN  IF r.ok THEN SecondPass(r.ha, teamsToAssign, hole + 1, teamIndex + 1)
             ELSE SecondPass(ha, teamsToAssign, hole + 1, teamIndex)
    ELSE SecondPass(ha, teamsToAssign, hole + 1, teamIndex)

\* mutant: the second pass is left out
TwoPassesFirstOnly(teamsToAssign) ==
    FirstPass(emptyAssignments, teamsToAssign, 1, 0).ha

\* both passes over an emptied board
TwoPasses(teamsToAssign) ==
    LET p1 == FirstPass(emptyAssignments, teamsToAssign, 1, 0)
    IN  SecondPass(p1.ha, teamsToAssign, 1, p1.teamIndex).ha

\* the unassigned teams as autoAssignTeams and randomizeTeamAssignments read
\* them: the board was cleared on the line before, so every team is unassigned
\* mutant: the unassigned teams are read before the board is cleared
TeamsToAssignBeforeClear(ts) == getUnassignedTeamsInternal(holeAssignments, ts)

TeamsToAssign(ts) == getUnassignedTeamsInternal(emptyAssignments, ts)

\* the assignments autoAssignTeams leaves
AutoAssignResult(ts) == TwoPasses(TeamsToAssign(ts))

\* mutant: the exchange only copies a[j] to a[i]
SwapCopiesOnly(s, i, j) ==
    [k \in 1..Len(s) |-> IF k = i + 1 THEN s[j + 1] ELSE s[k]]

\* Fisher-Yates: for i = n-1 down to 1, swap a[i] and a[j[i]], 0 <= j[i] <= i
Swap(s, i, j) ==
    [k \in 1..Len(s) |-> IF k = i + 1 THEN s[j + 1] ELSE IF k = j + 1 THEN s[i + 1] ELSE s[k]]

RECURSIVE Shuffle(_, _, _)
Shuffle(s, js, i) ==
    IF i <= 0 THEN s ELSE Shuffle(Swap(s, i, js[i]), js, i - 1)

\* the outcomes of Math.floor(Math.random() * (i + 1)) for i = 1..n-1: every
\* one for short lists, the streams 0..MaxStream for long ones
RandomStream(n, k) == [i \in 1..(n - 1) |-> (i * k) % (i + 1)]
ShuffleChoices(n) ==
    IF n <= MaxFullShuffle
    THEN {js \in [1..(n - 1) -> 0..(n - 1)] : \A i \in 1..(n - 1) : js[i] <= i}
    ELSE {RandomStream(n, k) : k \in 0..MaxStream}

RandomizeResult(ts, js) ==
    LET teamsToAssign == TeamsToAssign(ts)
    IN  TwoPasses(Shuffle(teamsToAssign, js, Len(teamsToAssign) - 1))

(***************************************************************************)
(* Data-model commands on the hole assignments                             *)
(***************************************************************************)
assignTeamToHole(teamId, hole) ==
    LET r == AssignResult(holeAssignments, teamId, hole)
    IN  /\ holeAssignments' = r.ha
        /\ ret' = Ret("assignTeamToHole", r.ok)
        /\ UNCHANGED <<players, groups, teams, settings, interactiveDraftState,
                       localStorage, isGrouped, awaitingAnimation, nextRef>>

removeTeamFromHole(teamId, hole) ==
    LET r == RemoveResult(holeAssignments, teamId, hole)
    IN  /\ holeAssignments' = r.ha
        /\ ret' = Ret("removeTeamFromHole", r.ok)
        /\ UNCHANGED <<players, groups, teams, settings, interactiveDraftState,
                       localStorage, isGrouped, awaitingAnimation, nextRef>>

autoAssignTeams ==
    /\ holeAssignments' = AutoAssignResult(teams)
    /\ ret' = Ret("autoAssignTeams", TRUE)
    /\ UNCHANGED <<players, groups, teams, settings, interactiveDraftState,
                   localStorage, isGrouped, awaitingAnimation, nextRef>>

randomizeTeamAssignments ==
    \E js \in ShuffleChoices(Len(teams)) :
        /\ holeAssignments' = RandomizeResult(teams, js)
        /\ ret' = Ret("randomizeTeamAssignments", TRUE)
        /\ UNCHANGED <<players, groups, teams, settings, interactiveDraftState,
                       localStorage, isGrouped, awaitingAnimation, nextRef>>

\* resetAssignmentsHandler: DataModel.setHoleAssignments({})
setHoleAssignmentsEmpty ==
    /\ holeAssignments' = emptyAssignments
    /\ ret' = Ret("setHoleAssignments", TRUE)
    /\ UNCHANGED <<players, groups, teams, settings, interactiveDraftState,
                   localStorage, isGrouped, awaitingAnimation, nextRef>>

(***************************************************************************)
(* SpecHoles: a session that has formed n teams (every player drawn into a *)
(* team, so the groups are empty) and works on the tee assignment tab.     *)
(***************************************************************************)
TeamPlayer(i, slot) ==
    [ref |-> 4 * (i - 1) + slot, name |-> <<"T", ",", "P">>,
     handicap |-> 10 * slot + (i % 3), isPlus |-> FALSE]
FormedTeam(i) ==
    LET members == [slot \in 1..4 |-> TeamPlayer(i, slot)]
    IN  [id |-> i, members |-> members, totalHandicap |-> calculateTeamHandicap(members)]
FormedTeams(n) == [i \in 1..n |-> FormedTeam(i)]
RosterOf(n) == [k \in 1..(4 * n) |-> TeamPlayer(((k - 1) \div 4) + 1, ((k - 1) % 4) + 1)]

InitHoles ==
    \E n \in 0..MaxTeams :
        /\ players = RosterOf(n)
        /\ groups = emptyGroups
        /\ teams = FormedTeams(n)
        /\ holeAssignments = emptyAssignments
        /\ settings = defaultSettings
        /\ interactiveDraftState = NoDraft
        /\ localStorage = NoStorage
        /\ isGrouped = TRUE
        /\ awaitingAnimation = 0
        /\ nextRef = 4 * n + 1
        /\ ret = Ret("init", TRUE)

ManualAssign ==
    \E teamId \in 1..MaxManualTeamId, hole \in ManualHoles :
        assignTeamToHole(teamId, hole)
ManualRemove ==
    \E teamId \in 1..MaxManualTeamId, hole \in ManualHoles :
        removeTeamFromHole(teamId, hole)

NextHoles ==
    \/ ManualAssign
    \/ ManualRemove
    \/ autoAssignTeams
    \/ randomizeTeamAssignments
    \/ setHoleAssignmentsEmpty

SpecHoles == InitHoles /\ [][NextHoles]_vars

(***************************************************************************)
(* Claims about the hole assignment scheduler, checked under SpecHoles     *)
(***************************************************************************)
\* number of times teamId occurs in the list s
Count(s, teamId) == Cardinality({i \in 1..Len(s) : s[i] = teamId})
\* number of list entries over all holes
RECURSIVE SlotsUsedFrom(_, _)
SlotsUsedFrom(ha, hole) ==
    IF hole > NumHoles THEN 0
    ELSE Len(TeamsOnHole(ha, hole)) + SlotsUsedFrom(ha, hole + 1)
SlotsUsed(ha) == SlotsUsedFrom(ha, 1)
\* capacity of a hole as the specification states it
Capacity(hole) == IF hole \in {3, 4, 6, 7, 8, 10, 12, 13, 16, 18} THEN 2 ELSE 1

\* C1, state part: a team id is in at most one hole's list, at most once
TeamOnAtMostOneHole ==
    \A t \in getAssignedTeamIds(holeAssignments) :
        /\ Cardinality(HolesOf(holeAssignments, t)) <= 1
        /\ \A h \in DOMAIN holeAssignments : Count(holeAssignments[h], t) <= 1
\* C1, step part: a successful assignTeamToHole(t, h) leaves t on exactly hole
\* h, a successful removeTeamFromHole(t, h) leaves t on no hole
AssignPutsOnExactlyThatHole ==
    ret'.ok =>
        \A t \in 1..MaxManualTeamId, h \in ManualHoles :
            /\ assignTeamToHole(t, h) => HolesOf(holeAssignments', t) = {h}
            /\ removeTeamFromHole(t, h) => HolesOf(holeAssignments', t) = {}
\* C1: in every reachable state each team id occurs in at most one hole's list
\* and at most once in it; after a successful assignTeamToHole(t, h) team t is
\* on exactly hole h, after a successful removeTeamFromHole(t, h) on no hole.
C1_TeamOnOneHole == []TeamOnAtMostOneHole /\ [][AssignPutsOnExactlyThatHole]_vars
\* a second team was just assigned to a double-stacked hole by hand
C1_Witness ==
    /\ ret.op = "assignTeamToHole" /\ ret.ok
    /\ \E h \in DOMAIN holeAssignments : Len(holeAssignments[h]) = 2
    /\ Len(teams) = 2

\* C2: a hole of {3,4,6,7,8,10,12,13,16,18} holds at most 2 team ids, every
\* other hole of 1..18 at most 1 (and no other key exists).
C2_HoleCapacity ==
    \A h \in DOMAIN holeAssignments :
        h \in 1..18 /\ Len(holeAssignments[h]) <= Capacity(h)
\* a full board: every hole holds as many teams as it can
C2_Witness ==
    /\ DOMAIN holeAssignments = 1..18
    /\ \A h \in 1..18 : Len(holeAssignments[h]) = Capacity(h)

\* C3, step part: assignTeamToHole(t, h) fails exactly when h is outside 1..18,
\* or t is on some hole, or hole h holds its capacity; otherwise it appends t
AssignFailsExactlyWhen ==
    ret'.op = "assignTeamToHole" =>
    \A t \in 1..MaxManualTeamId, h \in ManualHoles :
        assignTeamToHole(t, h) =>
            LET onSomeHole == \E k \in DOMAIN holeAssignments :
                                  t \in Range(holeAssignments[k])
                before == IF h \in DOMAIN holeAssignments THEN holeAssignments[h] ELSE <<>>
                full == h \in 1..18 /\ Len(before) >= Capacity(h)
                fails == h \notin 1..18 \/ onSomeHole \/ full
            IN  /\ ret'.ok <=> ~fails
                /\ ret'.ok =>
                     /\ DOMAIN holeAssignments' = DOMAIN holeAssignments \cup {h}
                     /\ holeAssignments'[h] = before \o <<t>>
                     /\ \A k \in DOMAIN holeAssignments \ {h} :
                            holeAssignments'[k] = holeAssignments[k]
\* C3, scenario: on an empty board teams 1 and 2 go to hole 3, team 3 does not
AssignScenarioHole3 ==
    /\ (holeAssignments = emptyAssignments /\ assignTeamToHole(1, 3))
          => (ret'.ok /\ holeAssignments' = (3 :> <<1>>))
    /\ (holeAssignments = (3 :> <<1>>) /\ assignTeamToHole(2, 3))
          => (ret'.ok /\ holeAssignments' = (3 :> <<1, 2>>))
    /\ (holeAssignments = (3 :> <<1, 2>>) /\ assignTeamToHole(3, 3))
          => (~ret'.ok /\ holeAssignments' = (3 :> <<1, 2>>))
\* C3: assignTeamToHole fails exactly when the hole is outside 1..18, the team
\* is already on some hole, or the hole is at capacity; otherwise it succeeds
\* and appends the team id to the hole's list; teams 1 and 2 go to an empty
\* hole 3 and team 3 is then refused.
C3_AssignFailsExactlyWhen == [][AssignFailsExactlyWhen /\ AssignScenarioHole3]_vars
\* hole 3 holds teams 1 and 2, nothing else is assigned, and an assignment
\* has just been refused
C3_Witness ==
    /\ holeAssignments = (3 :> <<1, 2>>)
    /\ ret.op = "assignTeamToHole" /\ ~ret.ok
    /\ Len(teams) = 3

\* C4, state part: no hole of the map has an empty list
NoEmptyHoleEntry == \A h \in DOMAIN holeAssignments : Len(holeAssignments[h]) > 0
\* C4, step part: removeTeamFromHole(t, h) fails iff t is not on hole h, and
\* otherwise takes t off the list, deleting the key of an emptied list
RemoveFailsWhenNotOnHole ==
    ret'.op = "removeTeamFromHole" =>
    \A t \in 1..MaxManualTeamId, h \in ManualHoles :
        removeTeamFromHole(t, h) =>
            LET onHole == h \in DOMAIN holeAssignments /\ t \in Range(holeAssignments[h])
            IN  /\ ret'.ok <=> onHole
                /\ ~ret'.ok => holeAssignments' = holeAssignments
                /\ ret'.ok =>
                     /\ \A k \in DOMAIN holeAssignments \ {h} :
                            k \in DOMAIN holeAssignments' /\ holeAssignments'[k] = holeAssignments[k]
                     /\ IF Len(holeAssignments[h]) = 1
                        THEN DOMAIN holeAssignments' = DOMAIN holeAssignments \ {h}
                        ELSE /\ DOMAIN holeAssignments' = DOMAIN holeAssignments
                             /\ Len(holeAssignments'[h]) = Len(holeAssignments[h]) - 1
                             /\ t \notin Range(holeAssignments'[h])
                             /\ Range(holeAssignments'[h]) \subseteq Range(holeAssignments[h])
\* C4: removeTeamFromHole fails when the team is not on that hole and otherwise
\* removes it, deleting the hole's entry once its list is empty; the map never
\* contains a hole whose list is empty.
C4_RemoveDeletesEmptyHole == []NoEmptyHoleEntry /\ [][RemoveFailsWhenNotOnHole]_vars
\* the only assigned team was just removed, and its hole's key is gone
C4_Witness ==
    /\ ret.op = "removeTeamFromHole" /\ ret.ok
    /\ holeAssignments = emptyAssignments
    /\ Len(teams) >= 1

\* C5: right after autoAssignTeams or randomizeTeamAssignments exactly
\* min(number of teams, 28) distinct teams are assigned and no team id appears
\* twice across the holes.
C5_AssignsMinTeamsCapacity ==
    ret.op \in {"autoAssignTeams", "randomizeTeamAssignments"} =>
        /\ Cardinality(getAssignedTeamIds(holeAssignments)) = Min(Len(teams), 28)
        /\ SlotsUsed(holeAssignments) = Min(Len(teams), 28)
        /\ getAssignedTeamIds(holeAssignments) \subseteq {teams[i].id : i \in 1..Len(teams)}
\* more teams than slots were just assigned at random
C5_Witness ==
    /\ ret.op = "randomizeTeamAssignments"
    /\ Len(teams) = 29
    /\ SlotsUsed(holeAssignments) = 28

\* the assignment the two passes are described to produce for the team list ts
DoubleRank(hole) == Cardinality({d \in {3, 4, 6, 7, 8, 10, 12, 13, 16, 18} : d <= hole})
ExpectedAuto(ts) ==
    [h \in 1..Min(Len(ts), 18) |->
        IF Capacity(h) = 2 /\ 18 + DoubleRank(h) <= Len(ts)
        THEN <<ts[h].id, ts[18 + DoubleRank(h)].id>>
        ELSE <<ts[h].id>>]
\* C6, state part: right after autoAssignTeams the k-th team is the first
\* entry of hole k and the (18+j)-th team the second entry of the j-th
\* double-stacked hole; a hole holds two teams only if all 18 hold one
AutoAssignIsExpected ==
    ret.op = "autoAssignTeams" =>
        /\ holeAssignments = ExpectedAuto(teams)
        /\ (\E h \in DOMAIN holeAssignments : Len(holeAssignments[h]) = 2)
              => DOMAIN holeAssignments = 1..18
\* C6, step part: autoAssignTeams run right after autoAssignTeams changes nothing
AutoAssignTwiceSame ==
    (ret.op = "autoAssignTeams" /\ autoAssignTeams) => holeAssignments' = holeAssignments
\* C6: autoAssignTeams clears the board and places the teams in team-list
\* order, first one per hole 1..18, then second entries on the double-stacked
\* holes in ascending order; running it twice in a row gives the same map.
C6_AutoAssignDeterministic == []AutoAssignIsExpected /\ [][AutoAssignTwiceSame]_vars
\* 20 teams were just auto-assigned: holes 3 and 4 hold two teams, hole 6 one
C6_Witness ==
    /\ ret.op = "autoAssignTeams"
    /\ Len(teams) = 20
    /\ Len(holeAssignments[3]) = 2 /\ Len(holeAssignments[4]) = 2
    /\ Len(holeAssignments[6]) = 1

(***************************************************************************)
(* Group partitioner                                                       *)
(***************************************************************************)
\* Array.prototype.sort with the comparator handicapA - handicapB: a stable
\* sort by numeric handicap, as insertion from the left
RECURSIVE InsertSorted(_, _)
InsertSorted(sorted, p) ==
    IF sorted = <<>> THEN <<p>>
    ELSE IF getNumericHandicap(Head(sorted)) <= getNumericHandicap(p)
         THEN <<Head(sorted)>> \o InsertSorted(Tail(sorted), p)
         ELSE <<p>> \o sorted

RECURSIVE SortByHandicap(_)
SortByHandicap(ps) ==
    IF ps = <<>> THEN <<>>
    ELSE InsertSorted(SortByHandicap(SubSeq(ps, 1, Len(ps) - 1)), ps[Len(ps)])

\* Array.prototype.slice(start, end) with 0-based bounds, cut off at the length
Slice(s, start, end) == SubSeq(s, Min(start, Len(s)) + 1, Min(end, Len(s)))

\* mutant: Math.floor instead of Math.ceil
quarterSizeFloor(n) == n \div 4

\* Math.ceil(sortedPlayers.length / 4)
quarterSize(n) == (n + 3) \div 4

\* the groups groupPlayers builds from the registry
GroupsOf(ps) ==
    LET sortedPlayers == SortByHandicap(ps)
        q == quarterSize(Len(sortedPlayers))
    IN  [g \in {"A", "B", "C", "D"} |->
            CASE g = "A" -> Slice(sortedPlayers, 0, q)
              [] g = "B" -> Slice(sortedPlayers, q, q * 2)
              [] g = "C" -> Slice(sortedPlayers, q * 2, q * 3)
              [] g = "D" -> Slice(sortedPlayers, q * 3, Len(sortedPlayers))]

canFormTeam ==
    Len(groups.A) > 0 /\ Len(groups.B) > 0 /\ Len(groups.C) > 0 /\ Len(groups.D) > 0

groupPlayers ==
    IF Len(players) < 4
    THEN /\ ret' = Ret("groupPlayers", FALSE)
         /\ UNCHANGED <<players, groups, teams, holeAssignments, settings,
                        interactiveDraftState, localStorage, isGrouped, awaitingAnimation, nextRef>>
    ELSE /\ groups' = GroupsOf(players)
         /\ interactiveDraftState' = NoDraft
         /\ ret' = Ret("groupPlayers", TRUE)
         /\ UNCHANGED <<players, teams, holeAssignments, settings,
                        localStorage, isGrouped, awaitingAnimation, nextRef>>

(***************************************************************************)
(* SpecGroup: groupPlayers applied to every registry of up to              *)
(* MaxGroupPlayers players over three handicaps (+2.0, 5.0, 10.5)          *)
(***************************************************************************)
HandicapChoices ==
    {[handicap |-> 20, isPlus |-> TRUE], [handicap |-> 50, isPlus |-> FALSE],
     [handicap |-> 105, isPlus |-> FALSE]}
Registries(maxLen) ==
    UNION {{[i \in 1..n |-> [ref |-> i, name |-> <<"R", ",", "P">>,
                              handicap |-> c[i].handicap, isPlus |-> c[i].isPlus]] :
               c \in [1..n -> HandicapChoices]} : n \in 0..maxLen}

InitGroup ==
    /\ players \in Registries(MaxGroupPlayers)
    /\ groups = emptyGroups
    /\ teams = <<>>
    /\ holeAssignments = emptyAssignments
    /\ settings = defaultSettings
    /\ interactiveDraftState = NoDraft
    /\ localStorage = NoStorage
    /\ isGrouped = FALSE
    /\ awaitingAnimation = 0
    /\ nextRef = Len(players) + 1
    /\ ret = Ret("init", TRUE)

NextGroup == groupPlayers

SpecGroup == InitGroup /\ [][NextGroup]_vars

(***************************************************************************)
(* Claims about the group partitioner, checked under SpecGroup             *)
(***************************************************************************)
AllGrouped == groups.A \o groups.B \o groups.C \o groups.D
\* the registry index of a player object
RegistryIndex(p) == CHOOSE i \in 1..Len(players) : players[i] = p
\* the four groups, end to end, are the registry sorted by numeric handicap
\* ascending with ties in registry order
GroupsAreSortedRegistry ==
    /\ Len(AllGrouped) = Len(players)
    /\ Range(AllGrouped) = Range(players)
    /\ \A i, j \in 1..Len(AllGrouped) :
          i < j =>
             LET hi == IF AllGrouped[i].isPlus THEN 0 - AllGrouped[i].handicap
                       ELSE AllGrouped[i].handicap
                 hj == IF AllGrouped[j].isPlus THEN 0 - AllGrouped[j].handicap
                       ELSE AllGrouped[j].handicap
             IN  /\ hi <= hj
                 /\ hi = hj => RegistryIndex(AllGrouped[i]) < RegistryIndex(AllGrouped[j])
\* every player of A has a numeric handicap <= every player of D
GroupANotAboveD ==
    \A a \in Range(groups.A), d \in Range(groups.D) :
        (IF a.isPlus THEN 0 - a.handicap ELSE a.handicap)
            <= (IF d.isPlus THEN 0 - d.handicap ELSE d.handicap)
Ceil4(n) == IF n % 4 = 0 THEN n \div 4 ELSE (n \div 4) + 1
JustGrouped == ret.op = "groupPlayers" /\ ret.ok

Digits == <<"0", "1", "2", "3", "4", "5", "6", "7", "8", "9">>
IsDigit(c) == \E d \in 1..10 : Digits[d] = c
DigitValue(c) == (CHOOSE d \in 1..10 : Digits[d] = c) - 1
IsSpace(c) == c \in {" ", "\t", "\r", "\n"}

\* String.prototype.trim
RECURSIVE TrimLeft(_)
TrimLeft(t) == IF t # <<>> /\ IsSpace(Head(t)) THEN TrimLeft(Tail(t)) ELSE t
RECURSIVE TrimRight(_)
TrimRight(t) ==
    IF t # <<>> /\ IsSpace(t[Len(t)]) THEN TrimRight(SubSeq(t, 1, Len(t) - 1)) ELSE t
Trim(t) == TrimRight(TrimLeft(t))

\* String.prototype.replace('+', ''): the first "+" is removed
RECURSIVE RemoveFirstPlus(_)
RemoveFirstPlus(t) ==
    IF t = <<>> THEN <<>>
    ELSE IF Head(t) = "+" THEN Tail(t)
         ELSE <<Head(t)>> \o RemoveFirstPlus(Tail(t))

\* the longest prefix of digits, and the integer it denotes
RECURSIVE DigitPrefixLen(_)
DigitPrefixLen(t) ==
    IF t # <<>> /\ IsDigit(Head(t)) THEN 1 + DigitPrefixLen(Tail(t)) ELSE 0
RECURSIVE DigitsValue(_)
DigitsValue(t) ==
    IF t = <<>> THEN 0 ELSE DigitsValue(SubSeq(t, 1, Len(t) - 1)) * 10 + DigitValue(t[Len(t)])

NaN == [nan |-> TRUE, value |-> 0]
\* parseFloat: leading white space, an optional sign, digits, an optional
\* fraction; anything after that is ignored; the value is in tenths (the
\* digits after the first fractional digit are dropped; exponents and
\* "Infinity" are not modelled)
parseFloat(text) ==
    LET t0 == TrimLeft(text)
        negative == t0 # <<>> /\ Head(t0) = "-"
        t1 == IF t0 # <<>> /\ Head(t0) \in {"-", "+"} THEN Tail(t0) ELSE t0
        intLen == DigitPrefixLen(t1)
        t2 == SubSeq(t1, intLen + 1, Len(t1))
        hasPoint == t2 # <<>> /\ Head(t2) = "."
        frac == IF hasPoint THEN Tail(t2) ELSE <<>>
        fracLen == DigitPrefixLen(frac)
        tenths == IF fracLen > 0 THEN DigitValue(frac[1]) ELSE 0
        magnitude == DigitsValue(SubSeq(t1, 1, intLen)) * 10 + tenths
    IN  IF intLen = 0 /\ fracLen = 0 THEN NaN
        ELSE [nan |-> FALSE, value |-> IF negative THEN 0 - magnitude ELSE magnitude]

validatePlayerName(name) ==
    IF name = <<>> \/ Trim(name) = <<>> THEN FALSE
    ELSE IF ~Includes(name, ",") THEN FALSE
    ELSE TRUE

validateHandicap(handicap) ==
    IF handicap = <<>> \/ Trim(handicap) = <<>>
    THEN [valid |-> FALSE, value |-> 0, isPlus |-> FALSE]
    ELSE LET isPlus == Includes(handicap, "+")
             handicapValue == parseFloat(IF isPlus THEN RemoveFirstPlus(handicap) ELSE handicap)
         IN  IF handicapValue.nan THEN [valid |-> FALSE, value |-> 0, isPlus |-> FALSE]
             ELSE IF handicapValue.value < 0 /\ ~isPlus
                  THEN [valid |-> FALSE, value |-> 0, isPlus |-> FALSE]
             ELSE IF handicapValue.value > 540
                  THEN [valid |-> FALSE, value |-> 0, isPlus |-> FALSE]
             ELSE [valid |-> TRUE, value |-> handicapValue.value, isPlus |-> isPlus]

addPlayer(nameInput, handicapInput) ==
    LET nameValidation == validatePlayerName(nameInput)
        handicapValidation == validateHandicap(handicapInput)
    IN  IF ~nameValidation \/ ~handicapValidation.valid
        THEN /\ ret' = Ret("addPlayer", FALSE)
             /\ UNCHANGED <<players, groups, teams, holeAssignments, settings,
                            interactiveDraftState, localStorage, isGrouped,
                            awaitingAnimation, nextRef>>
        ELSE /\ players' = Append(players,
                               [ref |-> nextRef, name |-> Trim(nameInput),
                                handicap |-> handicapValidation.value,
                                isPlus |-> handicapValidation.isPlus])
             /\ nextRef' = nextRef + 1
             /\ ret' = Ret("addPlayer", TRUE)
             /\ UNCHANGED <<groups, teams, holeAssignments, settings,
                            interactiveDraftState, localStorage, isGrouped,
                            awaitingAnimation>>

\* mutant: the draft in progress survives the removal
removePlayerKeepsDraft(index) ==
    IF index >= 0 /\ index < Len(players)
    THEN /\ players' = RemoveAt(players, index + 1)
         /\ ret' = Ret("removePlayer", TRUE)
         /\ UNCHANGED <<groups, teams, holeAssignments, settings,
                        interactiveDraftState, localStorage, isGrouped, awaitingAnimation, nextRef>>
    ELSE /\ ret' = Ret("removePlayer", FALSE)
         /\ UNCHANGED <<players, groups, teams, holeAssignments, settings,
                        interactiveDraftState, localStorage, isGrouped, awaitingAnimation, nextRef>>

\* index is the 0-based index of the call
removePlayer(index) ==
    IF index >= 0 /\ index < Len(players)
    THEN /\ players' = RemoveAt(players, index + 1)
         /\ interactiveDraftState' = NoDraft
         /\ ret' = Ret("removePlayer", TRUE)
         /\ UNCHANGED <<groups, teams, holeAssignments, settings,
                        localStorage, isGrouped, awaitingAnimation, nextRef>>
    ELSE /\ ret' = Ret("removePlayer", FALSE)
         /\ UNCHANGED <<players, groups, teams, holeAssignments, settings,
                        interactiveDraftState, localStorage, isGrouped, awaitingAnimation, nextRef>>

\* groupPlayersHandler: DataModel.groupPlayers(), then UIState.isGrouped = true
groupPlayersHandler ==
    IF Len(players) < 4
    THEN /\ ret' = Ret("groupPlayers", FALSE)
         /\ UNCHANGED <<players, groups, teams, holeAssignments, settings,
                        interactiveDraftState, localStorage, isGrouped, awaitingAnimation, nextRef>>
    ELSE /\ groups' = GroupsOf(players)
         /\ interactiveDraftState' = NoDraft
         /\ isGrouped' = TRUE
         /\ ret' = Ret("groupPlayers", TRUE)
         /\ UNCHANGED <<players, teams, holeAssignments, settings, localStorage,
                        awaitingAnimation, nextRef>>

\* resetAllHandler: after the confirm dialog, DataModel.resetAll() (settings
\* are kept) and resetGroupsUI(), which clears UIState.isGrouped
\* mutant: the settings go back to their defaults as well
resetAllHandlerDefaultSettings ==
    \E confirmed \in BOOLEAN :
        IF ~confirmed
        \* no data-model call is made
        THEN UNCHANGED vars
        ELSE /\ players' = <<>>
             /\ groups' = emptyGroups
             /\ teams' = <<>>
             /\ holeAssignments' = emptyAssignments
             /\ interactiveDraftState' = NoDraft
             /\ isGrouped' = FALSE
             /\ ret' = Ret("resetAll", TRUE)
             /\ settings' = defaultSettings
             /\ UNCHANGED <<localStorage, awaitingAnimation, nextRef>>

resetAllHandler ==
    \E confirmed \in BOOLEAN :
        IF ~confirmed
        \* no data-model call is made
        THEN UNCHANGED vars
        ELSE /\ players' = <<>>
             /\ groups' = emptyGroups
             /\ teams' = <<>>
             /\ holeAssignments' = emptyAssignments
             /\ interactiveDraftState' = NoDraft
             /\ isGrouped' = FALSE
             /\ ret' = Ret("resetAll", TRUE)
             /\ UNCHANGED <<settings, localStorage, awaitingAnimation, nextRef>>

(***************************************************************************)
(* Team formation: single random pick                                      *)
(***************************************************************************)
\* mutant: the members are stored in the order D, C, B, A
selectTeamReversedSlots ==
    IF ~canFormTeam
    THEN /\ ret' = Ret("selectTeam", FALSE)
         /\ UNCHANGED <<players, groups, teams, holeAssignments, settings,
                        interactiveDraftState, localStorage, isGrouped, awaitingAnimation, nextRef>>
    ELSE \E iA \in 1..Len(groups.A), iB \in 1..Len(groups.B),
            iC \in 1..Len(groups.C), iD \in 1..Len(groups.D) :
            LET members == <<groups.D[iD], groups.C[iC], groups.B[iB], groups.A[iA]>>
                newTeam == [id |-> Len(teams) + 1, members |-> members,
                            totalHandicap |-> calculateTeamHandicap(members)]
            IN  /\ teams' = Append(teams, newTeam)
                /\ groups' = [A |-> RemoveAt(groups.A, iA), B |-> RemoveAt(groups.B, iB),
                              C |-> RemoveAt(groups.C, iC), D |-> RemoveAt(groups.D, iD)]
                /\ ret' = Ret("selectTeam", TRUE)
                /\ UNCHANGED <<players, holeAssignments, settings,
                               interactiveDraftState, localStorage, isGrouped,
                               awaitingAnimation, nextRef>>

\* mutant: the id of a new team is the length of the team list
selectTeamIdIsLength ==
    IF ~canFormTeam
    THEN /\ ret' = Ret("selectTeam", FALSE)
         /\ UNCHANGED <<players, groups, teams, holeAssignments, settings,
                        interactiveDraftState, localStorage, isGrouped, awaitingAnimation, nextRef>>
    ELSE \E iA \in 1..Len(groups.A), iB \in 1..Len(groups.B),
            iC \in 1..Len(groups.C), iD \in 1..Len(groups.D) :
            LET members == <<groups.A[iA], groups.B[iB], groups.C[iC], groups.D[iD]>>
                newTeam == [id |-> Len(teams), members |-> members,
                            totalHandicap |-> calculateTeamHandicap(members)]
            IN  /\ teams' = Append(teams, newTeam)
                /\ groups' = [A |-> RemoveAt(groups.A, iA), B |-> RemoveAt(groups.B, iB),
                              C |-> RemoveAt(groups.C, iC), D |-> RemoveAt(groups.D, iD)]
                /\ ret' = Ret("selectTeam", TRUE)
                /\ UNCHANGED <<players, holeAssignments, settings,
                               interactiveDraftState, localStorage, isGrouped,
                               awaitingAnimation, nextRef>>

\* selectTeam with the four indices Math.floor(Math.random() * group.length),
\* 1-based
selectTeam ==
    IF ~canFormTeam
    THEN /\ ret' = Ret("selectTeam", FALSE)
         /\ UNCHANGED <<players, groups, teams, holeAssignments, settings,
                        interactiveDraftState, localStorage, isGrouped, awaitingAnimation, nextRef>>
    ELSE \E iA \in 1..Len(groups.A), iB \in 1..Len(groups.B),
            iC \in 1..Len(groups.C), iD \in 1..Len(groups.D) :
            LET members == <<groups.A[iA], groups.B[iB], groups.C[iC], groups.D[iD]>>
                newTeam == [id |-> Len(teams) + 1, members |-> members,
                            totalHandicap |-> calculateTeamHandicap(members)]
            IN  /\ teams' = Append(teams, newTeam)
                /\ groups' = [A |-> RemoveAt(groups.A, iA), B |-> RemoveAt(groups.B, iB),
                              C |-> RemoveAt(groups.C, iC), D |-> RemoveAt(groups.D, iD)]
                /\ ret' = Ret("selectTeam", TRUE)
                /\ UNCHANGED <<players, holeAssignments, settings,
                               interactiveDraftState, localStorage, isGrouped,
                               awaitingAnimation, nextRef>>

(***************************************************************************)
(* Team formation: interactive draft                                       *)
(***************************************************************************)
draftOrder == <<"D", "C", "B", "A">>
\* an empty member slot (null)
NullPlayer == [ref |-> 0, name |-> <<>>, handicap |-> 0, isPlus |-> FALSE]
\* averages are exact fractions num / den
Zero == [num |-> 0, den |-> 1]
Abs(x) == IF x < 0 THEN 0 - x ELSE x

RECURSIVE SumTeamHandicaps(_)
SumTeamHandicaps(ts) ==
    IF ts = <<>> THEN 0
    ELSE calculateTeamHandicap(Head(ts).members) + SumTeamHandicaps(Tail(ts))

\* avgPlayerHandicap and targetTeamHandicap as initializeInteractiveDraft sets them
avgPlayerHandicapOf(ps) ==
    IF Len(ps) > 0 THEN [num |-> SumHandicaps(ps), den |-> Len(ps)] ELSE Zero
\* mutant: the target is 4 x the players' average also when teams exist
targetTeamHandicapOfPlayersOnly(ps, ts) ==
    IF Len(ps) > 0 THEN [num |-> 4 * SumHandicaps(ps), den |-> Len(ps)] ELSE Zero
targetTeamHandicapOf(ps, ts) ==
    IF Len(ts) > 0 THEN [num |-> SumTeamHandicaps(ts), den |-> Len(ts)]
    ELSE IF Len(ps) > 0 THEN [num |-> 4 * SumHandicaps(ps), den |-> Len(ps)]
    ELSE Zero

\* mutant: the old draft state is discarded before the groups are validated
initializeInteractiveDraftResetsFirst ==
    IF Len(groups.A) = 0 \/ Len(groups.B) = 0 \/ Len(groups.C) = 0 \/ Len(groups.D) = 0
    THEN /\ interactiveDraftState' = NoDraft
         /\ ret' = Ret("initializeInteractiveDraft", FALSE)
         /\ UNCHANGED <<players, groups, teams, holeAssignments, settings,
                        localStorage, isGrouped, awaitingAnimation, nextRef>>
    ELSE /\ interactiveDraftState' =
                [exists |-> TRUE,
                 numTeams |-> Min(Min(Len(groups.A), Len(groups.B)),
                                  Min(Len(groups.C), Len(groups.D))),
                 currentTeamIndex |-> 0,
                 currentRoundIndex |-> 0,
                 availableGroups |-> groups,
                 draftedTeamsData |->
                     [t \in 1..Min(Min(Len(groups.A), Len(groups.B)),
                                   Min(Len(groups.C), Len(groups.D))) |->
                         [members |-> <<NullPlayer, NullPlayer, NullPlayer, NullPlayer>>,
                          partialHandicap |-> 0]],
                 targetTeamHandicap |->
                     IF settings.balanceTeams
                     THEN targetTeamHandicapOf(players, teams) ELSE Zero,
                 avgPlayerHandicap |->
                     IF settings.balanceTeams
                     THEN avgPlayerHandicapOf(players) ELSE Zero]
         /\ ret' = Ret("initializeInteractiveDraft", TRUE)
         /\ UNCHANGED <<players, groups, teams, holeAssignments, settings,
                        localStorage, isGrouped, awaitingAnimation, nextRef>>

\* mutant: the number of teams is the size of group A
initializeInteractiveDraftTeamsOfGroupA ==
    LET numTeams == Len(groups.A)
    IN  IF Min(Min(Len(groups.A), Len(groups.B)), Min(Len(groups.C), Len(groups.D))) = 0
        THEN /\ ret' = Ret("initializeInteractiveDraft", FALSE)
             /\ UNCHANGED <<players, groups, teams, holeAssignments, settings,
                            interactiveDraftState, localStorage, isGrouped,
                            awaitingAnimation, nextRef>>
        ELSE /\ interactiveDraftState' =
                    [exists |-> TRUE,
                     numTeams |-> numTeams,
                     currentTeamIndex |-> 0,
                     currentRoundIndex |-> 0,
                     availableGroups |-> groups,
                     draftedTeamsData |->
                         [t \in 1..numTeams |->
                             [members |-> <<NullPlayer, NullPlayer, NullPlayer, NullPlayer>>,
                              partialHandicap |-> 0]],
                     targetTeamHandicap |->
                         IF settings.balanceTeams
                         THEN targetTeamHandicapOf(players, teams) ELSE Zero,
                     avgPlayerHandicap |->
                         IF settings.balanceTeams
                         THEN avgPlayerHandicapOf(players) ELSE Zero]
             /\ ret' = Ret("initializeInteractiveDraft", TRUE)
             /\ UNCHANGED <<players, groups, teams, holeAssignments, settings,
                            localStorage, isGrouped, awaitingAnimation, nextRef>>

\* mutant: numTeams is the size of the largest group
initializeInteractiveDraftLargestGroup ==
    LET smallest == Min(Min(Len(groups.A), Len(groups.B)), Min(Len(groups.C), Len(groups.D)))
        numTeams == IF smallest = 0 THEN 0 ELSE Len(groups.A)
    IN  IF numTeams = 0
        THEN /\ ret' = Ret("initializeInteractiveDraft", FALSE)
             /\ UNCHANGED <<players, groups, teams, holeAssignments, settings,
                            interactiveDraftState, localStorage, isGrouped,
                            awaitingAnimation, nextRef>>
        ELSE /\ interactiveDraftState' =
                    [exists |-> TRUE,
                     numTeams |-> numTeams,
                     currentTeamIndex |-> 0,
                     currentRoundIndex |-> 0,
                     availableGroups |-> groups,
                     draftedTeamsData |->
                         [t \in 1..numTeams |->
                             [members |-> <<NullPlayer, NullPlayer, NullPlayer, NullPlayer>>,
                              partialHandicap |-> 0]],
                     targetTeamHandicap |->
                         IF settings.balanceTeams
                         THEN targetTeamHandicapOf(players, teams) ELSE Zero,
                     avgPlayerHandicap |->
                         IF settings.balanceTeams
                         THEN avgPlayerHandicapOf(players) ELSE Zero]
             /\ ret' = Ret("initializeInteractiveDraft", TRUE)
             /\ UNCHANGED <<players, groups, teams, holeAssignments, settings,
                            localStorage, isGrouped, awaitingAnimation, nextRef>>

initializeInteractiveDraft ==
    LET numTeams == Min(Min(Len(groups.A), Len(groups.B)), Min(Len(groups.C), Len(groups.D)))
    IN  IF numTeams = 0
        THEN /\ ret' = Ret("initializeInteractiveDraft", FALSE)
             /\ UNCHANGED <<players, groups, teams, holeAssignments, settings,
                            interactiveDraftState, localStorage, isGrouped,
                            awaitingAnimation, nextRef>>
        ELSE /\ interactiveDraftState' =
                    [exists |-> TRUE,
                     numTeams |-> numTeams,
                     currentTeamIndex |-> 0,
                     currentRoundIndex |-> 0,
                     availableGroups |-> groups,
                     draftedTeamsData |->
                         [t \in 1..numTeams |->
                             [members |-> <<NullPlayer, NullPlayer, NullPlayer, NullPlayer>>,
                              partialHandicap |-> 0]],
                     targetTeamHandicap |->
                         IF settings.balanceTeams
                         THEN targetTeamHandicapOf(players, teams) ELSE Zero,
                     avgPlayerHandicap |->
                         IF settings.balanceTeams
                         THEN avgPlayerHandicapOf(players) ELSE Zero]
             /\ ret' = Ret("initializeInteractiveDraft", TRUE)
             /\ UNCHANGED <<players, groups, teams, holeAssignments, settings,
                            localStorage, isGrouped, awaitingAnimation, nextRef>>

\* |predictedFinalHandicap - targetTeamHandicap| of candidate j, times the two
\* denominators
Difference(state, pool, j, roundIndex) ==
    LET currentPartialHandicap ==
            state.draftedTeamsData[state.currentTeamIndex + 1].partialHandicap
        remainingRounds == Len(draftOrder) - (roundIndex + 1)
        avg == state.avgPlayerHandicap
        target == state.targetTeamHandicap
    IN  Abs((currentPartialHandicap + getNumericHandicap(pool[j])) * avg.den * target.den
            + remainingRounds * avg.num * target.den
            - target.num * avg.den)

\* mutant: the loop tests difference <= minDifference and keeps the last
\* candidate of least difference
BestPlayerIdxLastMinimum(state, pool, roundIndex) ==
    CHOOSE j \in 1..Len(pool) :
        /\ \A k \in 1..Len(pool) :
              Difference(state, pool, j, roundIndex) <= Difference(state, pool, k, roundIndex)
        /\ \A k \in (j + 1)..Len(pool) :
              Difference(state, pool, k, roundIndex) > Difference(state, pool, j, roundIndex)

\* the candidate the balancing loop keeps: the first one of least difference
\* (minDifference starts at Infinity, so the fallback to a random pick is
\* never taken on a non-empty pool)
BestPlayerIdx(state, pool, roundIndex) ==
    CHOOSE j \in 1..Len(pool) :
        /\ \A k \in 1..Len(pool) :
              Difference(state, pool, j, roundIndex) <= Difference(state, pool, k, roundIndex)
        /\ \A k \in 1..(j - 1) :
              Difference(state, pool, k, roundIndex) > Difference(state, pool, j, roundIndex)

\* mutant: the member slot is the round index (D into slot 0, ..., A into
\* slot 3)
AfterPickSlotByRound(state, chosen) ==
    LET teamIndex == state.currentTeamIndex
        roundIndex == state.currentRoundIndex
        groupLetter == draftOrder[roundIndex + 1]
        pool == state.availableGroups[groupLetter]
        chosenPlayer == pool[chosen]
        memberIndex == roundIndex
        team == state.draftedTeamsData[teamIndex + 1]
        newTeam == [members |-> [team.members EXCEPT ![memberIndex + 1] = chosenPlayer],
                    partialHandicap |-> team.partialHandicap + getNumericHandicap(chosenPlayer)]
        wraps == teamIndex + 1 >= state.numTeams
    IN  [state EXCEPT
            !.draftedTeamsData[teamIndex + 1] = newTeam,
            !.availableGroups[groupLetter] = RemoveAt(pool, chosen),
            !.currentTeamIndex = IF wraps THEN 0 ELSE teamIndex + 1,
            !.currentRoundIndex = IF wraps THEN roundIndex + 1 ELSE roundIndex]

\* the draft state after the pick of pool[chosen] in the current round
AfterPick(state, chosen) ==
    LET teamIndex == state.currentTeamIndex
        roundIndex == state.currentRoundIndex
        groupLetter == draftOrder[roundIndex + 1]
        pool == state.availableGroups[groupLetter]
        chosenPlayer == pool[chosen]
        memberIndex == Len(draftOrder) - 1 - roundIndex
        team == state.draftedTeamsData[teamIndex + 1]
        newTeam == [members |-> [team.members EXCEPT ![memberIndex + 1] = chosenPlayer],
                    partialHandicap |-> team.partialHandicap + getNumericHandicap(chosenPlayer)]
        wraps == teamIndex + 1 >= state.numTeams
    IN  [state EXCEPT
            !.draftedTeamsData[teamIndex + 1] = newTeam,
            !.availableGroups[groupLetter] = RemoveAt(pool, chosen),
            !.currentTeamIndex = IF wraps THEN 0 ELSE teamIndex + 1,
            !.currentRoundIndex = IF wraps THEN roundIndex + 1 ELSE roundIndex]

\* mutant: the pools are the live groups, a pick takes the player out of both
makeInteractiveDraftPickFromLiveGroups ==
    LET state == interactiveDraftState
    IN  IF ~state.exists
        THEN /\ ret' = Ret("makeInteractiveDraftPick", FALSE)
             /\ UNCHANGED <<players, groups, teams, holeAssignments, settings,
                            interactiveDraftState, localStorage, isGrouped,
                            awaitingAnimation, nextRef>>
        ELSE IF state.currentRoundIndex >= Len(draftOrder)
        \* draftOrder[roundIndex] is undefined, availableGroups[undefined] is
        \* undefined, and reading its length throws a TypeError
        THEN /\ ret' = Threw("makeInteractiveDraftPick")
             /\ UNCHANGED <<players, groups, teams, holeAssignments, settings,
                            interactiveDraftState, localStorage, isGrouped,
                            awaitingAnimation, nextRef>>
        ELSE LET groupLetter == draftOrder[state.currentRoundIndex + 1]
                 currentAvailableGroup == state.availableGroups[groupLetter]
             IN  IF Len(currentAvailableGroup) = 0
                 THEN /\ ret' = Ret("makeInteractiveDraftPick", FALSE)
                      /\ UNCHANGED <<players, groups, teams, holeAssignments, settings,
                                     interactiveDraftState, localStorage, isGrouped,
                                     awaitingAnimation, nextRef>>
                 ELSE \E chosen \in 1..Len(currentAvailableGroup) :
                         /\ (settings.balanceTeams /\ groupLetter # "D")
                               => chosen = BestPlayerIdx(state, currentAvailableGroup,
                                                         state.currentRoundIndex)
                         /\ interactiveDraftState' = AfterPick(state, chosen)
                         /\ groups' = [groups EXCEPT ![groupLetter] =
                                           FilterOut(@, currentAvailableGroup[chosen])]
                         /\ ret' = Ret("makeInteractiveDraftPick", TRUE)
                         /\ UNCHANGED <<players, teams, holeAssignments, settings,
                                        localStorage, isGrouped, awaitingAnimation, nextRef>>

makeInteractiveDraftPick ==
    LET state == interactiveDraftState
    IN  IF ~state.exists
        THEN /\ ret' = Ret("makeInteractiveDraftPick", FALSE)
             /\ UNCHANGED <<players, groups, teams, holeAssignments, settings,
                            interactiveDraftState, localStorage, isGrouped,
                            awaitingAnimation, nextRef>>
        ELSE IF state.currentRoundIndex >= Len(draftOrder)
        \* draftOrder[roundIndex] is undefined, availableGroups[undefined] is
        \* undefined, and reading its length throws a TypeError
        THEN /\ ret' = Threw("makeInteractiveDraftPick")
             /\ UNCHANGED <<players, groups, teams, holeAssignments, settings,
                            interactiveDraftState, localStorage, isGrouped,
                            awaitingAnimation, nextRef>>
        ELSE LET groupLetter == draftOrder[state.currentRoundIndex + 1]
                 currentAvailableGroup == state.availableGroups[groupLetter]
             IN  IF Len(currentAvailableGroup) = 0
                 THEN /\ ret' = Ret("makeInteractiveDraftPick", FALSE)
                      /\ UNCHANGED <<players, groups, teams, holeAssignments, settings,
                                     interactiveDraftState, localStorage, isGrouped,
                                     awaitingAnimation, nextRef>>
                 ELSE \E chosen \in 1..Len(currentAvailableGroup) :
                         /\ (settings.balanceTeams /\ groupLetter # "D")
                               => chosen = BestPlayerIdx(state, currentAvailableGroup,
                                                         state.currentRoundIndex)
                         /\ interactiveDraftState' = AfterPick(state, chosen)
                         /\ ret' = Ret("makeInteractiveDraftPick", TRUE)
                         /\ UNCHANGED <<players, groups, teams, holeAssignments, settings,
                                        localStorage, isGrouped, awaitingAnimation, nextRef>>

\* mutant: the drafted player stays in the live groups
RemoveFromGroupsNever(gs, player) == gs

\* the live groups with the object `player` removed from the first group that
\* holds it (find by identity, indexOf, splice)
RemoveFromGroups(gs, player) ==
    LET holders == {k \in 1..4 : Includes(gs[GroupLetters[k]], player)}
    IN  IF holders = {} THEN gs
        ELSE LET groupKey == GroupLetters[CHOOSE k \in holders : \A m \in holders : k <= m]
                 playerIndex == CHOOSE i \in 1..Len(gs[groupKey]) :
                                    /\ gs[groupKey][i] = player
                                    /\ \A m \in 1..(i - 1) : gs[groupKey][m] # player
             IN  [gs EXCEPT ![groupKey] = RemoveAt(gs[groupKey], playerIndex)]

RECURSIVE RemoveAllFromGroups(_, _)
RemoveAllFromGroups(gs, members) ==
    IF members = <<>> THEN gs
    ELSE RemoveAllFromGroups(RemoveFromGroups(gs, Head(members)), Tail(members))

\* mutant: the id does not count the teams collected so far
RECURSIVE FinalizeFromSameId(_, _, _, _, _)
FinalizeFromSameId(drafted, k, teamCount, finalTeams, gs) ==
    IF k > Len(drafted) THEN [finalTeams |-> finalTeams, groups |-> gs]
    ELSE IF \A m \in 1..4 : drafted[k].members[m] # NullPlayer
    THEN LET newTeam == [id |-> teamCount + 1,
                         members |-> drafted[k].members,
                         totalHandicap |-> calculateTeamHandicap(drafted[k].members)]
         IN  FinalizeFromSameId(drafted, k + 1, teamCount, Append(finalTeams, newTeam),
                                RemoveAllFromGroups(gs, drafted[k].members))
    ELSE FinalizeFromSameId(drafted, k + 1, teamCount, finalTeams, gs)

\* the forEach of finalizeDraftedTeams over draftedTeamsData from index k on:
\* the teams collected and the live groups
RECURSIVE FinalizeFrom(_, _, _, _, _)
FinalizeFrom(drafted, k, teamCount, finalTeams, gs) ==
    IF k > Len(drafted) THEN [finalTeams |-> finalTeams, groups |-> gs]
    ELSE IF \A m \in 1..4 : drafted[k].members[m] # NullPlayer
    THEN LET newTeam == [id |-> teamCount + Len(finalTeams) + 1,
                         members |-> drafted[k].members,
                         totalHandicap |-> calculateTeamHandicap(drafted[k].members)]
         IN  FinalizeFrom(drafted, k + 1, teamCount, Append(finalTeams, newTeam),
                          RemoveAllFromGroups(gs, drafted[k].members))
    ELSE FinalizeFrom(drafted, k + 1, teamCount, finalTeams, gs)

finalizeDraftedTeams ==
    LET state == interactiveDraftState
    IN  IF ~state.exists \/ state.currentRoundIndex < Len(draftOrder)
        THEN /\ ret' = Ret("finalizeDraftedTeams", FALSE)
             /\ UNCHANGED <<players, groups, teams, holeAssignments, settings,
                            interactiveDraftState, localStorage, isGrouped,
                            awaitingAnimation, nextRef>>
        ELSE LET r == FinalizeFrom(state.draftedTeamsData, 1, Len(teams), <<>>, groups)
             IN  /\ teams' = teams \o r.finalTeams
                 /\ groups' = r.groups
                 /\ interactiveDraftState' = NoDraft
                 /\ ret' = Ret("finalizeDraftedTeams", TRUE)
                 /\ UNCHANGED <<players, holeAssignments, settings,
                                localStorage, isGrouped, awaitingAnimation, nextRef>>

updateSetting(key, value) ==
    /\ settings' = [settings EXCEPT ![key] = value]
    /\ ret' = Ret("updateSetting", TRUE)
    /\ UNCHANGED <<players, groups, teams, holeAssignments,
                   interactiveDraftState, localStorage, isGrouped, awaitingAnimation, nextRef>>

(***************************************************************************)
(* Persistence                                                             *)
(***************************************************************************)
\* JSON text holds no object identity: every player of the blob has ref 0
Unref(p) == [p EXCEPT !.ref = 0]
UnrefSeq(ps) == [i \in 1..Len(ps) |-> Unref(ps[i])]
BlobOf(ps, gs, ts, ha, st) ==
    [players |-> UnrefSeq(ps),
     groups |-> [g \in {"A", "B", "C", "D"} |-> UnrefSeq(gs[g])],
     teams |-> [t \in 1..Len(ts) |-> [ts[t] EXCEPT !.members = UnrefSeq(ts[t].members)]],
     holeAssignments |-> ha,
     settings |-> st]
CorruptStorage == [present |-> TRUE, parses |-> FALSE]
\* the stored text is "null": it parses, and reading parsedData.players throws
NullStorage == [present |-> TRUE, parses |-> TRUE, isNull |-> TRUE]
IsNull(storage) == "isNull" \in DOMAIN storage
Stored(blob) == [present |-> TRUE, parses |-> TRUE, data |-> blob]

\* saveToLocalStorage; setItem may throw (quota), which is caught
saveToLocalStorage ==
    \E quotaExceeded \in BOOLEAN :
        /\ localStorage' = IF quotaExceeded THEN localStorage
                           ELSE Stored(BlobOf(players, groups, teams, holeAssignments, settings))
        /\ ret' = Ret("saveToLocalStorage", ~quotaExceeded)
        /\ UNCHANGED <<players, groups, teams, holeAssignments, settings,
                       interactiveDraftState, isGrouped, awaitingAnimation, nextRef>>

\* JSON.parse builds new objects, one per occurrence.  They are numbered from
\* a base that no object still referenced after the load (only the draft
\* state keeps objects across a load) uses.
DraftRefs(state) ==
    IF ~state.exists THEN {}
    ELSE UNION {{p.ref : p \in Range(state.availableGroups[g])} : g \in {"A", "B", "C", "D"}}
         \cup UNION {{p.ref : p \in Range(state.draftedTeamsData[t].members)} :
                        t \in 1..Len(state.draftedTeamsData)}
ParseBase(state) == IF \E r \in DraftRefs(state) : r \in 100..199 THEN 200 ELSE 100
WithRefs(ps, base) == [i \in 1..Len(ps) |-> [ps[i] EXCEPT !.ref = base + i]]
ParsedPlayers(blob, base) == WithRefs(blob.players, base)
ParsedGroups(blob, base) ==
    LET np == Len(blob.players)
        la == Len(blob.groups.A)
        lb == Len(blob.groups.B)
        lc == Len(blob.groups.C)
    IN  [A |-> WithRefs(blob.groups.A, base + np),
         B |-> WithRefs(blob.groups.B, base + np + la),
         C |-> WithRefs(blob.groups.C, base + np + la + lb),
         D |-> WithRefs(blob.groups.D, base + np + la + lb + lc)]
ParsedTeams(blob, base) ==
    LET before == Len(blob.players) + Len(blob.groups.A) + Len(blob.groups.B)
                  + Len(blob.groups.C) + Len(blob.groups.D)
    IN  [t \in 1..Len(blob.teams) |->
            [blob.teams[t] EXCEPT
                !.members = WithRefs(blob.teams[t].members, base + before + 4 * (t - 1))]]

\* mutant: the registry is emptied before the stored text is read
loadFromLocalStorageClearsFirst ==
    IF ~localStorage.present
    THEN /\ ret' = Ret("loadFromLocalStorage", FALSE)
         /\ players' = <<>>
         /\ UNCHANGED <<groups, teams, holeAssignments, settings,
                        interactiveDraftState, localStorage, isGrouped,
                        awaitingAnimation, nextRef>>
    ELSE IF ~localStorage.parses \/ IsNull(localStorage)
    \* JSON.parse, or the first read of parsedData, throws before anything is
    \* assigned; the catch reports it
    THEN /\ ret' = Ret("loadFromLocalStorage", FALSE)
         /\ players' = <<>>
         /\ UNCHANGED <<groups, teams, holeAssignments, settings,
                        interactiveDraftState, localStorage, isGrouped,
                        awaitingAnimation, nextRef>>
    ELSE LET parsedData == localStorage.data
             base == ParseBase(interactiveDraftState)
         IN  /\ players' = ParsedPlayers(parsedData, base)
             /\ groups' = ParsedGroups(parsedData, base)
             /\ teams' = ParsedTeams(parsedData, base)
             /\ holeAssignments' = parsedData.holeAssignments
             /\ settings' = parsedData.settings
             /\ ret' = Ret("loadFromLocalStorage", TRUE)
             /\ UNCHANGED <<interactiveDraftState, localStorage, isGrouped,
                            awaitingAnimation, nextRef>>

loadFromLocalStorage ==
    IF ~localStorage.present
    THEN /\ ret' = Ret("loadFromLocalStorage", FALSE)
         /\ UNCHANGED <<players, groups, teams, holeAssignments, settings,
                        interactiveDraftState, localStorage, isGrouped,
                        awaitingAnimation, nextRef>>
    ELSE IF ~localStorage.parses \/ IsNull(localStorage)
    \* JSON.parse, or the first read of parsedData, throws before anything is
    \* assigned; the catch reports it
    THEN /\ ret' = Ret("loadFromLocalStorage", FALSE)
         /\ UNCHANGED <<players, groups, teams, holeAssignments, settings,
                        interactiveDraftState, localStorage, isGrouped,
                        awaitingAnimation, nextRef>>
    ELSE LET parsedData == localStorage.data
             base == ParseBase(interactiveDraftState)
         IN  /\ players' = ParsedPlayers(parsedData, base)
             /\ groups' = ParsedGroups(parsedData, base)
             /\ teams' = ParsedTeams(parsedData, base)
             /\ holeAssignments' = parsedData.holeAssignments
             /\ settings' = parsedData.settings
             /\ ret' = Ret("loadFromLocalStorage", TRUE)
             /\ UNCHANGED <<interactiveDraftState, localStorage, isGrouped,
                            awaitingAnimation, nextRef>>

(***************************************************************************)
(* SpecStore: the data-model commands called in any order on a store that  *)
(* starts empty; the browser's storage holds nothing, a text that does not *)
(* parse, or the state an earlier session saved.                           *)
(***************************************************************************)
NameInputs == {<<>>, <<"D", "o", "e">>, <<" ", "N", "g", ",", "P", " ">>}
HandicapInputs ==
    {<<>>, <<"x">>, <<"-", "3">>, <<"5", "5">>, <<"+", "2", ".", "5">>}

SavedPlayer(handicap, isPlus) ==
    [ref |-> 0, name |-> <<"N", "g", ",", "P">>, handicap |-> handicap, isPlus |-> isPlus]
\* a session saved with three players in the registry, before any grouping
SavedSession ==
    LET ps == <<SavedPlayer(50, FALSE), SavedPlayer(25, TRUE), SavedPlayer(50, FALSE)>>
    IN  Stored(BlobOf(ps, emptyGroups, <<>>, emptyAssignments, defaultSettings))

InitStore ==
    /\ players = <<>>
    /\ groups = emptyGroups
    /\ teams = <<>>
    /\ holeAssignments = emptyAssignments
    /\ settings = defaultSettings
    /\ interactiveDraftState = NoDraft
    /\ localStorage \in {NoStorage, CorruptStorage, SavedSession}
    /\ isGrouped = FALSE
    /\ awaitingAnimation = 0
    /\ nextRef = 1
    /\ ret = Ret("init", TRUE)

\* each name is entered with the handicap "+2.5", each handicap with the
\* name " Ng,P "
AddInputs ==
    {input \in NameInputs \X HandicapInputs :
        input[1] = <<" ", "N", "g", ",", "P", " ">> \/ input[2] = <<"+", "2", ".", "5">>}
StoreAddPlayer ==
    \E input \in AddInputs : LET nameInput == input[1]  handicapInput == input[2] IN
        /\ (validatePlayerName(nameInput) /\ validateHandicap(handicapInput).valid)
              => (Len(players) < MaxPlayers /\ nextRef <= MaxAdds)
        /\ addPlayer(nameInput, handicapInput)
StoreRemovePlayer ==
    \E index \in {-1, 0, Len(players)} : removePlayer(index)
StoreSelectTeam ==
    /\ canFormTeam => Len(teams) < MaxStoreTeams
    /\ selectTeam
StoreFinalize ==
    /\ interactiveDraftState.exists
          => Len(teams) + interactiveDraftState.numTeams <= MaxStoreTeams
    /\ finalizeDraftedTeams
\* the first team and holes 0 (not a hole) and 1; the scheduler is checked
\* with every team and hole under SpecHoles
StoreAssign ==
    \E hole \in {0, 1} : assignTeamToHole(1, hole)
StoreRemove ==
    \E hole \in {0, 1} : removeTeamFromHole(1, hole)

NextStore ==
    \/ StoreAddPlayer
    \/ StoreRemovePlayer
    \/ groupPlayersHandler
    \/ StoreSelectTeam
    \/ initializeInteractiveDraft
    \/ makeInteractiveDraftPick
    \/ StoreFinalize
    \/ StoreAssign
    \/ StoreRemove
    \/ loadFromLocalStorage

SpecStore == InitStore /\ [][NextStore]_vars

(***************************************************************************)
(* Claims about the commands, checked under SpecStore                      *)
(***************************************************************************)
\* C8: right after a successful groupPlayers the team list holds no team
\* formed before the regroup and no draft is in progress.
C8_RegroupInvalidatesTeams ==
    (ret.op = "groupPlayers" /\ ret.ok) =>
        /\ teams = <<>>
        /\ ~interactiveDraftState.exists

\* the commands of the data model that can report a failure
FailingCommands ==
    {"addPlayer", "removePlayer", "groupPlayers", "selectTeam",
     "initializeInteractiveDraft", "makeInteractiveDraftPick", "finalizeDraftedTeams",
     "assignTeamToHole", "removeTeamFromHole", "loadFromLocalStorage"}
FailureChangesNothing ==
    (ret'.op \in FailingCommands /\ ~ret'.ok) =>
        /\ players' = players
        /\ groups' = groups
        /\ teams' = teams
        /\ holeAssignments' = holeAssignments
        /\ settings' = settings
        /\ interactiveDraftState' = interactiveDraftState
\* C9: a data-model command that reports failure leaves players, groups,
\* teams, hole assignments, settings and draft state as they were.
C9_FailureChangesNothing == [][FailureChangesNothing]_vars
\* finalizeDraftedTeams was just refused in the middle of a draft, with a
\* team already formed
C9_Witness ==
    /\ ret.op = "finalizeDraftedTeams" /\ ~ret.ok
    /\ interactiveDraftState.exists
    /\ interactiveDraftState.currentRoundIndex = 2
    /\ Len(players) = 4

\* C10: every data-model command returns a result object and never throws,
\* also makeInteractiveDraftPick on a complete draft that is not finalized.
C10_NeverThrows == ~ret.threw

(***************************************************************************)
(* SpecValidate: one addPlayer call with every handicap text of up to      *)
(* MaxTextLen characters, on an empty registry and on a registry of one    *)
(* player                                                                  *)
(***************************************************************************)
HandicapAlphabet == {"+", "-", "5", ".", "x", " "}
HandicapTexts == UNION {[1..k -> HandicapAlphabet] : k \in 0..MaxTextLen}
\* the call about to be made
Pending(nameInput, handicapInput) ==
    [op |-> "pending", ok |-> TRUE, threw |-> FALSE,
     nameInput |-> nameInput, handicapInput |-> handicapInput]

InitValidate ==
    /\ players \in {<<>>, <<[ref |-> 1, name |-> <<"N", "g", ",", "P">>,
                             handicap |-> 105, isPlus |-> FALSE]>>}
    /\ groups = emptyGroups
    /\ teams = <<>>
    /\ holeAssignments = emptyAssignments
    /\ settings = defaultSettings
    /\ interactiveDraftState = NoDraft
    /\ localStorage = NoStorage
    /\ isGrouped = FALSE
    /\ awaitingAnimation = 0
    /\ nextRef = Len(players) + 1
    /\ \E nameInput \in NameInputs, handicapInput \in HandicapTexts :
          ret = Pending(nameInput, handicapInput)

ValidateAddPlayer ==
    /\ ret.op = "pending"
    /\ addPlayer(ret.nameInput, ret.handicapInput)

NextValidate == ValidateAddPlayer

SpecValidate == InitValidate /\ [][NextValidate]_vars

(***************************************************************************)
(* Claims about addPlayer, checked under SpecValidate                      *)
(***************************************************************************)
\* the number of characters of t that form a decimal number from the start:
\* an optional sign, digits, an optional fraction (0 if there is no digit)
NumberLen(t) ==
    LET signLen == IF t # <<>> /\ Head(t) \in {"-", "+"} THEN 1 ELSE 0
        t1 == SubSeq(t, signLen + 1, Len(t))
        intLen == DigitPrefixLen(t1)
        t2 == SubSeq(t1, intLen + 1, Len(t1))
        fracLen == IF t2 # <<>> /\ Head(t2) = "." THEN DigitPrefixLen(Tail(t2)) ELSE 0
        pointLen == IF t2 # <<>> /\ Head(t2) = "." /\ intLen + fracLen > 0 THEN 1 ELSE 0
    IN  IF intLen + fracLen = 0 THEN 0 ELSE signLen + intLen + pointLen + fracLen
\* the text without its plus sign and the white space around it
NumberText(t) == Trim(IF Includes(t, "+") THEN RemoveFirstPlus(t) ELSE t)
\* a numeric handicap text is a decimal number and nothing else
IsNumericText(t) == NumberText(t) # <<>> /\ NumberLen(NumberText(t)) = Len(NumberText(t))
\* the value of a numeric text, in tenths
NumericValue(t) ==
    LET n == NumberText(t)
        negative == Head(n) = "-"
        t1 == IF Head(n) \in {"-", "+"} THEN Tail(n) ELSE n
        intLen == DigitPrefixLen(t1)
        t2 == SubSeq(t1, intLen + 1, Len(t1))
        tenths == IF Len(t2) >= 2 THEN DigitValue(t2[2]) ELSE 0
        magnitude == DigitsValue(SubSeq(t1, 1, intLen)) * 10 + tenths
    IN  IF negative THEN 0 - magnitude ELSE magnitude

AddPlayerMustFail(nameInput, handicapInput) ==
    \/ ~Includes(nameInput, ",")
    \/ ~IsNumericText(handicapInput)
    \/ (NumericValue(handicapInput) < 0 /\ ~Includes(handicapInput, "+"))
    \/ NumericValue(handicapInput) > 540

AddPlayerAsStated ==
    ret.op = "pending" =>
        IF AddPlayerMustFail(ret.nameInput, ret.handicapInput)
        THEN ~ret'.ok /\ players' = players
        ELSE /\ ret'.ok
             /\ Len(players') = Len(players) + 1
             /\ SubSeq(players', 1, Len(players)) = players
             /\ getNumericHandicap(players'[Len(players')]) =
                   IF Includes(ret.handicapInput, "+")
                   THEN 0 - NumericValue(ret.handicapInput)
                   ELSE NumericValue(ret.handicapInput)
\* C11: addPlayer fails when the name has no comma or the handicap text is
\* not a number, is negative without a plus sign or exceeds 54; otherwise it
\* appends one player at the end of the registry, whose effective handicap
\* is -value with a plus sign and value without.
C11_AddPlayerAsStated == [][AddPlayerAsStated]_vars

\* C12: every player of the registry has a stored handicap value v with
\* 0 <= v <= 54, whatever handicap text was entered.
C12_StoredHandicapInRange ==
    \A i \in 1..Len(players) : players[i].handicap >= 0 /\ players[i].handicap <= 540

(***************************************************************************)
(* SpecRemove: removePlayer with every index, on registries of up to       *)
(* MaxRemovePlayers players, between regroupings and during drafts         *)
(***************************************************************************)
\* a registry of n players as n addPlayer calls leave it: the handicaps are
\* 3.0, 6.0, 2.0, 5.0, +1.0, 4.0, 0, 3.0, 6.0, ... in the order of entry
RegistryOf(n) ==
    [i \in 1..n |-> [ref |-> i, name |-> <<"R", ",", "P">>,
                     handicap |-> 10 * ((3 * i) % 7), isPlus |-> (i % 7 = 5)]]

InitRemove ==
    /\ \E n \in 0..MaxRemovePlayers : players = RegistryOf(n)
    /\ groups = emptyGroups
    /\ teams = <<>>
    /\ holeAssignments = emptyAssignments
    /\ settings = defaultSettings
    /\ interactiveDraftState = NoDraft
    /\ localStorage = NoStorage
    /\ isGrouped = FALSE
    /\ awaitingAnimation = 0
    /\ nextRef = Len(players) + 1
    /\ ret = Ret("init", TRUE)

RemoveAnyPlayer ==
    \E index \in (0 - 2)..(MaxRemovePlayers + 1) : removePlayer(index)

NextRemove ==
    \/ RemoveAnyPlayer
    \/ groupPlayersHandler
    \/ initializeInteractiveDraft
    \/ makeInteractiveDraftPick

SpecRemove == InitRemove /\ [][NextRemove]_vars

(***************************************************************************)
(* Claims about removePlayer, checked under SpecRemove                     *)
(***************************************************************************)
RemovePlayerAsStated ==
    ret'.op = "removePlayer" =>
        \A index \in (0 - 2)..(MaxRemovePlayers + 1) :
            removePlayer(index) =>
                IF index < 0 \/ index > Len(players) - 1
                THEN /\ ~ret'.ok
                     /\ UNCHANGED dataVars
                ELSE /\ ret'.ok
                     /\ Len(players') = Len(players) - 1
                     /\ \A i \in 1..index : players'[i] = players[i]
                     /\ \A i \in (index + 1)..Len(players') : players'[i] = players[i + 1]
                     /\ ~interactiveDraftState'.exists
\* C13: removePlayer(index) with index outside 0..|players|-1 changes
\* nothing; with a valid index it removes exactly the player at that index,
\* keeps the order of the others, and leaves no draft in progress.
C13_RemovePlayer == [][RemovePlayerAsStated]_vars
\* the second of four players was removed after the four were grouped, one
\* to a group
C13_Witness ==
    /\ ret.op = "removePlayer" /\ ret.ok
    /\ Len(players) = 3
    /\ players[1].ref = 1 /\ players[2].ref = 3
    /\ canFormTeam
    /\ ~interactiveDraftState.exists

(***************************************************************************)
(* Team formation: auto-select-all                                         *)
(***************************************************************************)
\* mutant: the player of group D is left out and slot 3 stays empty
SelectOnceWithoutD(gs, ts, iA, iB, iC, iD) ==
    LET members == <<gs.A[iA], gs.B[iB], gs.C[iC], NullPlayer>>
    IN  [groups |-> [A |-> RemoveAt(gs.A, iA), B |-> RemoveAt(gs.B, iB),
                     C |-> RemoveAt(gs.C, iC), D |-> RemoveAt(gs.D, iD)],
         teams |-> Append(ts, [id |-> Len(ts) + 1, members |-> members,
                               totalHandicap |-> calculateTeamHandicap(members)])]

\* one pass of the loop of selectAllTeamsHandler: selectTeam with the random
\* indices iA, iB, iC, iD (1-based) on the groups gs and the team list ts
SelectOnce(gs, ts, iA, iB, iC, iD) ==
    LET members == <<gs.A[iA], gs.B[iB], gs.C[iC], gs.D[iD]>>
    IN  [groups |-> [A |-> RemoveAt(gs.A, iA), B |-> RemoveAt(gs.B, iB),
                     C |-> RemoveAt(gs.C, iC), D |-> RemoveAt(gs.D, iD)],
         teams |-> Append(ts, [id |-> Len(ts) + 1, members |-> members,
                               totalHandicap |-> calculateTeamHandicap(members)])]

\* mutant: the loop body runs at most once (if instead of while)
RECURSIVE SelectAllFromOnce(_, _, _)
SelectAllFromOnce(gs, ts, teamsCreated) ==
    IF ~(Len(gs.A) > 0 /\ Len(gs.B) > 0 /\ Len(gs.C) > 0 /\ Len(gs.D) > 0)
    THEN {[groups |-> gs, teams |-> ts, teamsCreated |-> teamsCreated]}
    ELSE {[groups |-> SelectOnce(gs, ts, iA, iB, iC, iD).groups,
           teams |-> SelectOnce(gs, ts, iA, iB, iC, iD).teams,
           teamsCreated |-> teamsCreated + 1] :
              <<iA, iB, iC, iD>> \in (1..Len(gs.A)) \X (1..Len(gs.B))
                                     \X (1..Len(gs.C)) \X (1..Len(gs.D))}

\* while (DataModel.canFormTeam()) { selectTeam(); teamsCreated++ }: every
\* outcome of the loop started with teamsCreated teams already counted
RECURSIVE SelectAllFrom(_, _, _)
SelectAllFrom(gs, ts, teamsCreated) ==
    IF ~(Len(gs.A) > 0 /\ Len(gs.B) > 0 /\ Len(gs.C) > 0 /\ Len(gs.D) > 0)
    THEN {[groups |-> gs, teams |-> ts, teamsCreated |-> teamsCreated]}
    ELSE UNION {SelectAllFrom(SelectOnce(gs, ts, iA, iB, iC, iD).groups,
                              SelectOnce(gs, ts, iA, iB, iC, iD).teams,
                              teamsCreated + 1) :
                   <<iA, iB, iC, iD>> \in (1..Len(gs.A)) \X (1..Len(gs.B))
                                          \X (1..Len(gs.C)) \X (1..Len(gs.D))}

\* ret also holds the count the handler reports
selectAllTeamsHandler ==
    IF ~isGrouped
    THEN /\ ret' = [op |-> "selectAllTeams", ok |-> FALSE, threw |-> FALSE,
                    teamsCreated |-> 0]
         /\ UNCHANGED <<players, groups, teams, holeAssignments, settings,
                        interactiveDraftState, localStorage, isGrouped, awaitingAnimation, nextRef>>
    ELSE \E outcome \in SelectAllFrom(groups, teams, 0) :
            /\ groups' = outcome.groups
            /\ teams' = outcome.teams
            /\ ret' = [op |-> "selectAllTeams", ok |-> TRUE, threw |-> FALSE,
                       teamsCreated |-> outcome.teamsCreated]
            /\ UNCHANGED <<players, holeAssignments, settings,
                           interactiveDraftState, localStorage, isGrouped,
                           awaitingAnimation, nextRef>>

(***************************************************************************)
(* SpecDraft: grouping, random selection and the interactive draft on a    *)
(* registry of up to MaxDraftPlayers players, up to MaxDraftTeams teams    *)
(***************************************************************************)
InitDraft ==
    /\ \E n \in 0..MaxDraftPlayers : players = RegistryOf(n)
    /\ groups = emptyGroups
    /\ teams = <<>>
    /\ holeAssignments = emptyAssignments
    /\ settings = defaultSettings
    /\ interactiveDraftState = NoDraft
    /\ localStorage = NoStorage
    /\ isGrouped = FALSE
    /\ awaitingAnimation = 0
    /\ nextRef = Len(players) + 1
    /\ ret = Ret("init", TRUE)

\* the number of teams the live groups can still give
MinGroupLen == Min(Min(Len(groups.A), Len(groups.B)), Min(Len(groups.C), Len(groups.D)))

DraftSelectTeam ==
    /\ canFormTeam => Len(teams) < MaxDraftTeams
    /\ selectTeam
DraftSelectAll ==
    /\ isGrouped => Len(teams) + MinGroupLen <= MaxDraftTeams
    /\ selectAllTeamsHandler
DraftFinalize ==
    /\ interactiveDraftState.exists
          => Len(teams) + interactiveDraftState.numTeams <= MaxDraftTeams
    /\ finalizeDraftedTeams

NextDraft ==
    \/ groupPlayersHandler
    \/ DraftSelectTeam
    \/ DraftSelectAll
    \/ initializeInteractiveDraft
    \/ makeInteractiveDraftPick
    \/ DraftFinalize
    \/ resetAllHandler

SpecDraft == InitDraft /\ [][NextDraft]_vars

(***************************************************************************)
(* Claims about team formation, checked under SpecDraft                    *)
(***************************************************************************)
SelectTeamAsStated ==
    ret'.op = "selectTeam" =>
        IF Len(groups.A) = 0 \/ Len(groups.B) = 0 \/ Len(groups.C) = 0 \/ Len(groups.D) = 0
        THEN ~ret'.ok
        ELSE /\ ret'.ok
             /\ Len(teams') = Len(teams) + 1
             /\ SubSeq(teams', 1, Len(teams)) = teams
             /\ teams'[Len(teams')].id = Len(teams) + 1
             /\ Len(teams'[Len(teams')].members) = 4
             /\ \A k \in 1..4 :
                   LET member == teams'[Len(teams')].members[k]
                       live == groups[GroupLetters[k]]
                   IN  /\ Includes(live, member)
                       /\ Len(groups'[GroupLetters[k]]) = Len(live) - 1
                       /\ groups'[GroupLetters[k]] = FilterOut(live, member)
\* C14: selectTeam succeeds exactly when each of the groups A, B, C, D has a
\* player; it then appends one team with id = team count + 1 whose members
\* are one player of A, B, C, D in that slot order, and each group loses
\* exactly that player.
C14_SelectTeam == [][SelectTeamAsStated]_vars
\* the second team of eight players was just selected
C14_Witness ==
    /\ ret.op = "selectTeam" /\ ret.ok
    /\ Len(teams) = 2 /\ teams[2].id = 2
    /\ Len(players) = 8
    /\ groups = emptyGroups

SelectAllAsStated ==
    /\ SelectAllFrom(groups, teams, 0) # {}
    /\ ret'.op = "selectAllTeams" =>
        /\ Len(teams') = Len(teams) + MinGroupLen
        /\ SubSeq(teams', 1, Len(teams)) = teams
        /\ ret'.teamsCreated = MinGroupLen
        /\ (Len(groups'.A) = 0 \/ Len(groups'.B) = 0 \/ Len(groups'.C) = 0 \/ Len(groups'.D) = 0)
InitializeDraftAsStated ==
    ret'.op = "initializeInteractiveDraft" =>
        IF Len(groups.A) = 0 \/ Len(groups.B) = 0 \/ Len(groups.C) = 0 \/ Len(groups.D) = 0
        THEN /\ ~ret'.ok
             /\ interactiveDraftState' = interactiveDraftState
        ELSE LET state == interactiveDraftState'
             IN  /\ ret'.ok
                 /\ state.exists
                 /\ \A k \in 1..4 : state.numTeams <= Len(groups[GroupLetters[k]])
                 /\ \E k \in 1..4 : state.numTeams = Len(groups[GroupLetters[k]])
                 /\ state.currentTeamIndex = 0
                 /\ state.currentRoundIndex = 0
                 /\ Len(state.draftedTeamsData) = state.numTeams
                 /\ \A t \in 1..state.numTeams :
                       /\ Len(state.draftedTeamsData[t].members) = 4
                       /\ \A m \in 1..4 : state.draftedTeamsData[t].members[m] = NullPlayer
                 /\ \A k \in 1..4 :
                       state.availableGroups[GroupLetters[k]] = groups[GroupLetters[k]]
                 /\ groups' = groups
\* C16: initializeInteractiveDraft fails when a live group is empty;
\* otherwise it creates a draft with numTeams = min(|A|,|B|,|C|,|D|), both
\* cursors at 0, numTeams teams of four empty slots, and pools equal in
\* content and order to the live groups.
C16_InitializeDraft == [][InitializeDraftAsStated]_vars
\* a draft was just created from groups of 2, 2, 2 and 1 players
C16_Witness ==
    /\ ret.op = "initializeInteractiveDraft" /\ ret.ok
    /\ interactiveDraftState.exists
    /\ interactiveDraftState.numTeams = 1
    /\ Len(interactiveDraftState.availableGroups.A) = 2
    /\ Len(groups.D) = 1

\* the number of filled member slots of a draft, i.e. of its successful picks
FilledSlots(state) ==
    Cardinality({<<t, m>> \in (1..Len(state.draftedTeamsData)) \X (1..4) :
                    state.draftedTeamsData[t].members[m] # NullPlayer})
\* the member slot of a group: A is slot 0, ..., D is slot 3 (1-based here)
SlotOf(letter) == CHOOSE m \in 1..4 : GroupLetters[m] = letter
PickAsStated ==
    (ret'.op = "makeInteractiveDraftPick" /\ ret'.ok) =>
        LET pre == interactiveDraftState
            post == interactiveDraftState'
            k == FilledSlots(pre)
            team == (k % pre.numTeams) + 1
            letter == <<"D", "C", "B", "A">>[(k \div pre.numTeams) + 1]
            slot == SlotOf(letter)
            picked == post.draftedTeamsData[team].members[slot]
        IN  /\ pre.exists /\ post.exists
            /\ k <= 4 * pre.numTeams - 1
            /\ pre.draftedTeamsData[team].members[slot] = NullPlayer
            /\ picked # NullPlayer
            /\ Includes(pre.availableGroups[letter], picked)
            /\ post.availableGroups[letter] = FilterOut(pre.availableGroups[letter], picked)
            /\ Len(post.availableGroups[letter]) = Len(pre.availableGroups[letter]) - 1
            /\ \A m \in 1..4 : m # slot =>
                  post.availableGroups[GroupLetters[m]] = pre.availableGroups[GroupLetters[m]]
            /\ \A t \in 1..pre.numTeams, m \in 1..4 : <<t, m>> # <<team, slot>> =>
                  post.draftedTeamsData[t].members[m] = pre.draftedTeamsData[t].members[m]
            /\ FilledSlots(post) = k + 1
\* C17: the k-th successful makeInteractiveDraftPick of a draft (k from 0)
\* fills the slot of group D, C, B, A (for k div numTeams = 0, 1, 2, 3) of
\* team k mod numTeams with a player of that group's pool; it fills exactly
\* one empty slot, removes exactly that player from the pool and changes no
\* other slot.
C17_PickOrder == [][PickAsStated]_vars
\* the fourth pick of a draft of two teams: the C slot of the second team
C17_Witness ==
    /\ ret.op = "makeInteractiveDraftPick" /\ ret.ok
    /\ interactiveDraftState.exists
    /\ interactiveDraftState.numTeams = 2
    /\ FilledSlots(interactiveDraftState) = 4
    /\ interactiveDraftState.draftedTeamsData[2].members[3] # NullPlayer
    /\ interactiveDraftState.draftedTeamsData[2].members[2] = NullPlayer

\* a draft is complete exactly when numTeams x 4 slots are filled
CompleteWhenAllPicked ==
    interactiveDraftState.exists =>
        (FilledSlots(interactiveDraftState) = 4 * interactiveDraftState.numTeams
            <=> interactiveDraftState.currentRoundIndex >= 4)
\* (a step that changes nothing, such as a declined confirm dialog, is no
\* finalize step)
FinalizeAddsDraftedTeams ==
    (ret'.op = "finalizeDraftedTeams" /\ ret'.ok /\ vars' # vars) =>
        /\ FilledSlots(interactiveDraftState) = 4 * interactiveDraftState.numTeams
        /\ Len(teams') = Len(teams) + interactiveDraftState.numTeams
        /\ SubSeq(teams', 1, Len(teams)) = teams
        /\ \A t \in (Len(teams) + 1)..Len(teams') :
              /\ Len(teams'[t].members) = 4
              /\ \A m \in 1..4 :
                    /\ teams'[t].members[m] # NullPlayer
                    /\ Includes(GroupsOf(players)[GroupLetters[m]], teams'[t].members[m])
                    /\ \A k \in 1..4 : ~Includes(groups'[GroupLetters[k]], teams'[t].members[m])
\* C18: after numTeams x 4 successful picks the draft is complete with all
\* slots filled, and finalizeDraftedTeams then adds exactly numTeams teams,
\* each with one member of each of the groups A, B, C, D (as the registry
\* was grouped), none of whom is in a live group any more.
C18_FinalizeAfterAllPicks == []CompleteWhenAllPicked /\ [][FinalizeAddsDraftedTeams]_vars
\* a draft of two teams was just finalized
C18_Witness ==
    /\ ret.op = "finalizeDraftedTeams" /\ ret.ok
    /\ Len(teams) = 2
    /\ Len(players) = 8
    /\ groups = emptyGroups
    /\ teams[1].members[1] # teams[2].members[1]

\* the largest id of the team list, 0 for the empty list
MaxTeamId(ts) ==
    IF ts = <<>> THEN 0
    ELSE CHOOSE id \in {ts[i].id : i \in 1..Len(ts)} : \A i \in 1..Len(ts) : ts[i].id <= id
FinalizeAsStated ==
    ret'.op = "finalizeDraftedTeams" =>
        IF ~interactiveDraftState.exists \/ interactiveDraftState.currentRoundIndex < 4
        THEN /\ ~ret'.ok
             /\ teams' = teams
             /\ interactiveDraftState' = interactiveDraftState
        ELSE /\ ret'.ok
             /\ Len(teams') = Len(teams) + Len(interactiveDraftState.draftedTeamsData)
             /\ SubSeq(teams', 1, Len(teams)) = teams
             /\ \A j \in 1..Len(interactiveDraftState.draftedTeamsData) :
                   /\ teams'[Len(teams) + j].id = MaxTeamId(teams) + j
                   /\ teams'[Len(teams) + j].members =
                         interactiveDraftState.draftedTeamsData[j].members
             /\ ~interactiveDraftState'.exists
FailsRightAfterFinalize ==
    (/\ ret.op = "finalizeDraftedTeams" /\ ret.ok
     /\ ret'.op \in {"finalizeDraftedTeams", "makeInteractiveDraftPick"})
        => (~ret'.ok /\ ~ret'.threw /\ UNCHANGED dataVars)
\* C19: finalizeDraftedTeams fails when no draft exists or fewer than four
\* rounds are finished; when it succeeds the committed teams get the ids
\* (largest existing id) + 1, + 2, ... in draft-team order and the draft
\* state is discarded, so a finalizeDraftedTeams or makeInteractiveDraftPick
\* right after it fails.
C19_Finalize == [][FinalizeAsStated /\ FailsRightAfterFinalize]_vars
\* a draft of one team was finalized beside a team that existed before
C19_Witness ==
    /\ ret.op = "finalizeDraftedTeams" /\ ret.ok
    /\ Len(players) = 7
    /\ Len(teams) = 2
    /\ teams[2].id = 2
    /\ ~interactiveDraftState.exists

\* C20: every team of the team list has all four member slots filled, slot
\* 0 with a player of group A, slot 1 of B, slot 2 of C and slot 3 of D (as
\* the registry was grouped); no team with an empty slot is in the list.
C20_TeamsAreComplete ==
    \A t \in 1..Len(teams) :
        /\ Len(teams[t].members) = 4
        /\ \A m \in 1..4 :
              /\ teams[t].members[m] # NullPlayer
              /\ Includes(GroupsOf(players)[GroupLetters[m]], teams[t].members[m])
\* a team is in the list while a draft holds a team with an empty slot
C20_Witness ==
    /\ Len(teams) = 1
    /\ interactiveDraftState.exists
    /\ FilledSlots(interactiveDraftState) = 3
    /\ interactiveDraftState.numTeams = 1
    /\ Len(players) = 8

(***************************************************************************)
(* Team ids                                                                *)
(***************************************************************************)
\* C21: in every state reached through selectTeam, the draft operations and
\* the resets, the ids of the team list are exactly 1, 2, ..., |teams| in
\* list order, so no two teams share an id.
C21_TeamIdsAreIndices ==
    /\ \A i \in 1..Len(teams) : teams[i].id = i
    /\ \A i, j \in 1..Len(teams) : teams[i].id = teams[j].id => i = j
\* a random selection added a second team
C21_Witness ==
    /\ ret.op = "selectTeam" /\ ret.ok
    /\ Len(teams) = 2
    /\ teams[2].id = 2
    /\ groups = emptyGroups
    /\ teams[1].members[4].handicap > teams[2].members[4].handicap

(***************************************************************************)
(* CSV import                                                              *)
(***************************************************************************)
\* String.prototype.split with a one-character separator
RECURSIVE SplitOn(_, _)
SplitOn(t, sep) ==
    IF ~Includes(t, sep) THEN <<t>>
    ELSE LET k == CHOOSE i \in 1..Len(t) : t[i] = sep /\ \A j \in 1..(i - 1) : t[j] # sep
         IN  <<SubSeq(t, 1, k - 1)>> \o SplitOn(SubSeq(t, k + 1, Len(t)), sep)

\* csv.split(/\r\n|\n/): a "\r" right before a "\n" belongs to the separator
StripCR(line) ==
    IF line # <<>> /\ line[Len(line)] = "\r" THEN SubSeq(line, 1, Len(line) - 1) ELSE line
SplitLines(csv) ==
    LET pieces == SplitOn(csv, "\n")
    IN  [i \in 1..Len(pieces) |-> IF i < Len(pieces) THEN StripCR(pieces[i]) ELSE pieces[i]]

\* the two error messages, by the line number they name and their kind
NotEnoughData(lineNumber) == [line |-> lineNumber, kind |-> "not enough data"]
InvalidHandicap(lineNumber) == [line |-> lineNumber, kind |-> "invalid handicap"]

\* mutant: the error messages name the 0-based index of the line
RECURSIVE ProcessLinesFromZero(_, _, _, _)
ProcessLinesFromZero(lines, i, importedPlayers, errors) ==
    IF i >= Len(lines) THEN [players |-> importedPlayers, errors |-> errors]
    ELSE LET parts == SplitOn(lines[i + 1], ",")
         IN  IF Trim(lines[i + 1]) = <<>>
             THEN ProcessLinesFromZero(lines, i + 1, importedPlayers, errors)
             ELSE IF Len(parts) < 3
             THEN ProcessLinesFromZero(lines, i + 1, importedPlayers,
                                       Append(errors, NotEnoughData(i)))
             ELSE LET lastName == Trim(parts[1])
                      firstName == Trim(parts[2])
                      handicapInput == Trim(parts[3])
                      handicapValidation == validateHandicap(handicapInput)
                      player == [ref |-> nextRef + Len(importedPlayers),
                                 name |-> lastName \o <<",", " ">> \o firstName,
                                 handicap |-> handicapValidation.value,
                                 isPlus |-> handicapValidation.isPlus]
                  IN  IF ~handicapValidation.valid
                      THEN ProcessLinesFromZero(lines, i + 1, importedPlayers,
                                                Append(errors, InvalidHandicap(i)))
                      ELSE ProcessLinesFromZero(lines, i + 1,
                                                Append(importedPlayers, player), errors)

\* the loop of processCSV from line index i (0-based); a new player object
\* gets the next unused reference
RECURSIVE ProcessLines(_, _, _, _)
ProcessLines(lines, i, importedPlayers, errors) ==
    IF i >= Len(lines) THEN [players |-> importedPlayers, errors |-> errors]
    ELSE LET parts == SplitOn(lines[i + 1], ",")
         IN  IF Trim(lines[i + 1]) = <<>>
             THEN ProcessLines(lines, i + 1, importedPlayers, errors)
             ELSE IF Len(parts) < 3
             THEN ProcessLines(lines, i + 1, importedPlayers,
                               Append(errors, NotEnoughData(i + 1)))
             ELSE LET lastName == Trim(parts[1])
                      firstName == Trim(parts[2])
                      handicapInput == Trim(parts[3])
                      handicapValidation == validateHandicap(handicapInput)
                      player == [ref |-> nextRef + Len(importedPlayers),
                                 name |-> lastName \o <<",", " ">> \o firstName,
                                 handicap |-> handicapValidation.value,
                                 isPlus |-> handicapValidation.isPlus]
                  IN  IF ~handicapValidation.valid
                      THEN ProcessLines(lines, i + 1, importedPlayers,
                                        Append(errors, InvalidHandicap(i + 1)))
                      ELSE ProcessLines(lines, i + 1, Append(importedPlayers, player), errors)

\* processCSV returns {players, errors} and changes nothing in the store
processCSV(csv) == ProcessLines(SplitLines(csv), 0, <<>>, <<>>)

\* processCSVHandler: with any error nothing is imported; ret also holds
\* what processCSV returned
processCSVHandler(csv) ==
    LET result == processCSV(csv)
        imported == Len(result.errors) = 0
    IN  /\ ret' = [op |-> "processCSV", ok |-> imported, threw |-> FALSE,
                   players |-> result.players, errors |-> result.errors]
        /\ IF ~imported
           THEN UNCHANGED <<players, groups, teams, holeAssignments, settings,
                            interactiveDraftState, localStorage, isGrouped,
                            awaitingAnimation, nextRef>>
           ELSE /\ players' = players \o result.players
                /\ nextRef' = nextRef + Len(result.players)
                /\ IF isGrouped
                   THEN /\ isGrouped' = FALSE
                        /\ groups' = emptyGroups
                        /\ teams' = <<>>
                   ELSE UNCHANGED <<isGrouped, groups, teams>>
                /\ UNCHANGED <<holeAssignments, settings, interactiveDraftState,
                               localStorage, awaitingAnimation>>

(***************************************************************************)
(* SpecCsv: one import of a CSV text of up to MaxCsvLines lines, each one   *)
(* of CsvLines, separated by "\n" or "\r\n", with or without a separator   *)
(* after the last line                                                     *)
(***************************************************************************)
\* A,B,10 / C,D,bad / the empty line / a line of one space / E,F / G,H,+2
CsvLines ==
    {<<"A", ",", "B", ",", "1", "0">>, <<"C", ",", "D", ",", "b", "a", "d">>,
     <<>>, <<" ">>, <<"E", ",", "F">>, <<"G", ",", "H", ",", "+", "2">>}
RECURSIVE Join(_, _)
Join(lines, newline) ==
    IF Len(lines) = 0 THEN <<>>
    ELSE IF Len(lines) = 1 THEN lines[1]
    ELSE lines[1] \o newline \o Join(Tail(lines), newline)
\* the file chosen: its lines, its line separator, and its text
PendingImport(lines, newline, atEnd) ==
    [op |-> "pendingImport", ok |-> TRUE, threw |-> FALSE,
     lines |-> lines, newline |-> newline, atEnd |-> atEnd,
     csv |-> Join(lines, newline) \o (IF atEnd THEN newline ELSE <<>>)]

InitCsv ==
    /\ players \in {<<>>, RegistryOf(1)}
    /\ groups = emptyGroups
    /\ teams = <<>>
    /\ holeAssignments = emptyAssignments
    /\ settings = defaultSettings
    /\ interactiveDraftState = NoDraft
    /\ localStorage = NoStorage
    /\ isGrouped = FALSE
    /\ awaitingAnimation = 0
    /\ nextRef = Len(players) + 1
    /\ \E n \in 1..MaxCsvLines : \E lines \in [1..n -> CsvLines] :
          \E newline \in {<<"\n">>, <<"\r", "\n">>}, atEnd \in BOOLEAN :
             ret = PendingImport(lines, newline, atEnd)

CsvImport ==
    /\ ret.op = "pendingImport"
    /\ processCSVHandler(ret.csv)

NextCsv == CsvImport

SpecCsv == InitCsv /\ [][NextCsv]_vars

(***************************************************************************)
(* Claims about the CSV import, checked under SpecCsv                      *)
(***************************************************************************)
IsBlank(line) == \A i \in 1..Len(line) : line[i] = " "
NonBlankLines(lines) == {i \in 1..Len(lines) : ~IsBlank(lines[i])}
\* a line with three fields whose third field is a handicap
IsValidLine(line) ==
    /\ Cardinality({i \in 1..Len(line) : line[i] = ","}) >= 2
    /\ line[Len(line)] \in {"0", "2"}
\* C28: for a CSV text that mixes valid lines with lines of fewer than 3
\* fields or an invalid handicap, every valid line's player is added to the
\* player registry, and each invalid line is skipped and reported as one
\* per-line error.
C28_PartialImport ==
    [][ret'.op = "processCSV" =>
          LET valid == {i \in NonBlankLines(ret.lines) : IsValidLine(ret.lines[i])}
              invalid == NonBlankLines(ret.lines) \ valid
          IN  /\ Len(players') = Len(players) + Cardinality(valid)
              /\ SubSeq(players', 1, Len(players)) = players
              /\ Len(ret'.errors) = Cardinality(invalid)
              /\ \A i \in invalid : \E e \in 1..Len(ret'.errors) : ret'.errors[e].line = i]_vars

ScenarioLines == <<<<"A", ",", "B", ",", "1", "0">>, <<"C", ",", "D", ",", "b", "a", "d">>>>
\* what processCSV returns for the scenario text, and for blank lines
ProcessedAsStated(name) ==
    ret'.op = "processCSV" =>
        /\ (ret.lines = ScenarioLines /\ ret.newline = <<"\n">> /\ ret.atEnd) =>
              /\ Len(ret'.players) = 1
              /\ ret'.players[1].name = name
              /\ ret'.players[1].handicap = 100 /\ ~ret'.players[1].isPlus
              /\ Len(ret'.errors) = 1
              /\ ret'.errors[1].line = 2
        /\ Len(ret'.players) + Len(ret'.errors) = Cardinality(NonBlankLines(ret.lines))
        /\ \A e \in 1..Len(ret'.errors) : ret'.errors[e].line \in NonBlankLines(ret.lines)
\* C29 as stated: processing the two-line CSV A,B,10 / C,D,bad yields exactly
\* one player, named "B, A" with handicap 10, and exactly one error, which
\* refers to line 2; blank lines produce neither a player nor an error.
C29_AsStated == [][ProcessedAsStated(<<"B", ",", " ", "A">>)]_vars
\* C29, amended: the player is named "A, B" (last name, then first name, as
\* the fields come); the rest as stated.
C29_ProcessCsvScenario == [][ProcessedAsStated(<<"A", ",", " ", "B">>)]_vars
\* the scenario text was processed
C29_Witness ==
    /\ ret.op = "processCSV"
    /\ Len(ret.players) = 1
    /\ ret.players[1].name = <<"A", ",", " ", "B">>
    /\ ret.players[1].handicap = 100
    /\ ret.errors = <<InvalidHandicap(2)>>
    /\ players = <<>>

(***************************************************************************)
(* Tee sheet (uiController.js, updateTeeSheet)                             *)
(***************************************************************************)
MinutesPerDay == 1440
\* formatTime: the text "HH:MM" of the local time of day, kept as the minute
\* of the day; two such texts compare (<, >) as their minutes do.  startTime
\* is kept the same way.
formatTime(minutes) == minutes % MinutesPerDay

\* DataModel.findTeamById(teamId) finds a team
findTeamById(ts, teamId) == \E t \in 1..Len(ts) : ts[t].id = teamId

\* the loops over the holes 1..18 and over each hole's list, from the list
\* index idx (1-based) of hole on
RECURSIVE TeeSheetData(_, _, _, _, _, _, _)
TeeSheetData(ha, ts, st, hole, idx, assignedCount, teeSheetData) ==
    IF hole > NumHoles THEN teeSheetData
    ELSE IF idx > Len(TeamsOnHole(ha, hole))
    THEN TeeSheetData(ha, ts, st, hole + 1, 1, assignedCount, teeSheetData)
    ELSE LET teamId == TeamsOnHole(ha, hole)[idx]
         IN  IF ~findTeamById(ts, teamId)
             THEN TeeSheetData(ha, ts, st, hole, idx + 1, assignedCount, teeSheetData)
             ELSE IF st.startFormat = "shotgun"
             THEN TeeSheetData(ha, ts, st, hole, idx + 1, assignedCount,
                      Append(teeSheetData,
                             [hole |-> hole, teeTime |-> formatTime(st.startTime),
                              teamId |-> teamId]))
             ELSE TeeSheetData(ha, ts, st, hole, idx + 1, assignedCount + 1,
                      Append(teeSheetData,
                             [hole |-> hole,
                              teeTime |-> formatTime(st.startTime
                                                     + assignedCount * st.timeInterval),
                              teamId |-> teamId]))

\* the comparator of teeSheetData.sort: negative when a goes before b
CompareRows(a, b, startFormat) ==
    IF startFormat = "sequential"
    THEN IF a.teeTime < b.teeTime THEN 0 - 1
         ELSE IF a.teeTime > b.teeTime THEN 1
         ELSE a.hole - b.hole
    ELSE a.hole - b.hole

\* mutant: a row goes before the rows it compares equal to
RECURSIVE InsertRowBeforeEqual(_, _, _)
InsertRowBeforeEqual(sorted, row, startFormat) ==
    IF sorted = <<>> THEN <<row>>
    ELSE IF CompareRows(row, Head(sorted), startFormat) <= 0 THEN <<row>> \o sorted
    ELSE <<Head(sorted)>> \o InsertRowBeforeEqual(Tail(sorted), row, startFormat)

\* Array.prototype.sort is stable: a row goes after the rows it compares
\* equal to
RECURSIVE InsertRow(_, _, _)
InsertRow(sorted, row, startFormat) ==
    IF sorted = <<>> THEN <<row>>
    ELSE IF CompareRows(row, Head(sorted), startFormat) < 0 THEN <<row>> \o sorted
    ELSE <<Head(sorted)>> \o InsertRow(Tail(sorted), row, startFormat)
RECURSIVE SortRows(_, _)
SortRows(rows, startFormat) ==
    IF rows = <<>> THEN <<>>
    ELSE InsertRow(SortRows(SubSeq(rows, 1, Len(rows) - 1), startFormat),
                   rows[Len(rows)], startFormat)

\* the rows of the table body, top to bottom (none when there is no team)
TeeSheetRows(ha, ts, st) ==
    IF Len(ts) = 0 THEN <<>>
    ELSE SortRows(TeeSheetData(ha, ts, st, 1, 1, 0, <<>>), st.startFormat)

\* ret holds the rows rendered
updateTeeSheet ==
    /\ ret' = [op |-> "updateTeeSheet", ok |-> TRUE, threw |-> FALSE,
               rows |-> TeeSheetRows(holeAssignments, teams, settings)]
    /\ UNCHANGED <<players, groups, teams, holeAssignments, settings,
                   interactiveDraftState, localStorage, isGrouped,
                   awaitingAnimation, nextRef>>

\* the change listeners of the start format, start time and interval
\* inputs: DataModel.updateSetting(key, value), then updateTeeSheet()
teeSettingChange(key, value) ==
    /\ settings' = [settings EXCEPT ![key] = value]
    /\ ret' = [op |-> "updateTeeSheet", ok |-> TRUE, threw |-> FALSE,
               rows |-> TeeSheetRows(holeAssignments, teams, settings')]
    /\ UNCHANGED <<players, groups, teams, holeAssignments,
                   interactiveDraftState, localStorage, isGrouped,
                   awaitingAnimation, nextRef>>

(***************************************************************************)
(* SpecTee: a session with n formed teams on the tee assignment tab: teams *)
(* are put on and taken off the holes of TeeHoles, the three tee settings  *)
(* are changed, and the tee sheet is rendered.  Team ids up to MaxTeeTeams *)
(* are assigned even when the team list is shorter (an id of a team list   *)
(* that was reset stays in the assignments).                               *)
(***************************************************************************)
TeeHoles == {1, 3, 4}
\* 08:00 and 23:50
StartTimes == {480, 1430}
\* 10 minutes and 12 hours
TimeIntervals == {10, 720}

InitTee ==
    \E n \in 0..MaxTeeTeams :
        /\ players = RosterOf(n)
        /\ groups = emptyGroups
        /\ teams = FormedTeams(n)
        /\ holeAssignments = emptyAssignments
        /\ settings = defaultSettings
        /\ interactiveDraftState = NoDraft
        /\ localStorage = NoStorage
        /\ isGrouped = TRUE
        /\ awaitingAnimation = 0
        /\ nextRef = 4 * n + 1
        /\ ret = Ret("init", TRUE)

TeeAssign ==
    \E teamId \in 1..MaxTeeTeams, hole \in TeeHoles : assignTeamToHole(teamId, hole)
TeeRemove ==
    \E teamId \in 1..MaxTeeTeams, hole \in TeeHoles : removeTeamFromHole(teamId, hole)
TeeStartFormat ==
    \E value \in {"sequential", "shotgun"} : teeSettingChange("startFormat", value)
TeeStartTime ==
    \E value \in StartTimes : teeSettingChange("startTime", value)
TeeTimeInterval ==
    \E value \in TimeIntervals : teeSettingChange("timeInterval", value)

NextTee ==
    \/ TeeAssign
    \/ TeeRemove
    \/ TeeStartFormat
    \/ TeeStartTime
    \/ TeeTimeInterval
    \/ updateTeeSheet

SpecTee == InitTee /\ [][NextTee]_vars

(***************************************************************************)
(* Claims about the tee sheet, checked under SpecTee                       *)
(***************************************************************************)
\* the places <<hole, index in the hole's list>> that hold a team of the list
AssignedPlaces ==
    {pl \in (1..NumHoles) \X (1..2) :
        /\ pl[1] \in DOMAIN holeAssignments
        /\ pl[2] <= Len(holeAssignments[pl[1]])
        /\ \E t \in 1..Len(teams) : teams[t].id = holeAssignments[pl[1]][pl[2]]}
\* k: how many assigned teams are met before the place pl
PlacesBefore(pl) ==
    Cardinality({q \in AssignedPlaces : q[1] < pl[1] \/ (q[1] = pl[1] /\ q[2] < pl[2])})
\* the time computed for the k-th team, in minutes from midnight of the
\* first day
ComputedTime(k) == settings.startTime + k * settings.timeInterval
\* the place a row shows
PlaceOfRow(row) ==
    CHOOSE pl \in AssignedPlaces :
        pl[1] = row.hole /\ holeAssignments[pl[1]][pl[2]] = row.teamId
RowsShowAssignedTeams(rows) ==
    /\ Len(rows) = Cardinality(AssignedPlaces)
    /\ \A pl \in AssignedPlaces : \E i \in 1..Len(rows) :
          rows[i].hole = pl[1] /\ rows[i].teamId = holeAssignments[pl[1]][pl[2]]
\* C25: in sequential start format the k-th assigned team met when iterating
\* holes 1 to 18 and each hole's list in order (k from 0) is shown with tee
\* time startTime + k * timeInterval minutes, and the rows are displayed in
\* the order of that computed time, ties broken by hole number, also when
\* the times pass midnight.
C25_SequentialTeeTimes ==
    (ret.op = "updateTeeSheet" /\ settings.startFormat = "sequential" /\ Len(teams) > 0) =>
        /\ RowsShowAssignedTeams(ret.rows)
        /\ \A i \in 1..Len(ret.rows) :
              ret.rows[i].teeTime
                 = ComputedTime(PlacesBefore(PlaceOfRow(ret.rows[i]))) % MinutesPerDay
        /\ \A i, j \in 1..Len(ret.rows) : i < j =>
              LET ti == ComputedTime(PlacesBefore(PlaceOfRow(ret.rows[i])))
                  tj == ComputedTime(PlacesBefore(PlaceOfRow(ret.rows[j])))
              IN  ti < tj \/ (ti = tj /\ ret.rows[i].hole <= ret.rows[j].hole)

\* C26: in shotgun start format every assigned team is shown with the tee
\* time startTime, the rows are ordered by hole number, and teams on the same
\* hole keep the order of the hole's list; rendering the tee sheet, in either
\* format, changes nothing in the store.
ShotgunRows ==
    (ret.op = "updateTeeSheet" /\ settings.startFormat = "shotgun" /\ Len(teams) > 0) =>
        /\ RowsShowAssignedTeams(ret.rows)
        /\ \A i \in 1..Len(ret.rows) : ret.rows[i].teeTime = settings.startTime
        /\ \A i, j \in 1..Len(ret.rows) : i < j =>
              \/ ret.rows[i].hole < ret.rows[j].hole
              \/ /\ ret.rows[i].hole = ret.rows[j].hole
                 /\ PlaceOfRow(ret.rows[i])[2] < PlaceOfRow(ret.rows[j])[2]
RenderingChangesNothing ==
    (ret'.op = "updateTeeSheet" /\ settings' = settings) =>
        UNCHANGED <<players, groups, teams, holeAssignments, settings,
                    interactiveDraftState, localStorage>>
C26_ShotgunTeeSheet == []ShotgunRows /\ [][RenderingChangesNothing]_vars
\* a shotgun sheet of three teams, two of them on hole 3 with the team of
\* the higher id first in the hole's list
C26_Witness ==
    /\ ret.op = "updateTeeSheet"
    /\ settings.startFormat = "shotgun"
    /\ settings.startTime = 1430
    /\ Len(ret.rows) = 3
    /\ ret.rows[2].hole = 3 /\ ret.rows[3].hole = 3
    /\ ret.rows[2].teamId > ret.rows[3].teamId

(***************************************************************************)
(* SpecBalance: drafts with the balancing setting switched on and off, on  *)
(* registries of up to MaxBalancePlayers players: RegistryOf(n), and       *)
(* registries in which every handicap occurs twice                         *)
(***************************************************************************)
\* the handicaps 1.0, 1.0, 2.0, 2.0, 3.0, ... in the order of entry
PairedRegistry(n) ==
    [i \in 1..n |-> [ref |-> i, name |-> <<"R", ",", "P">>,
                     handicap |-> 10 * ((i + 1) \div 2), isPlus |-> FALSE]]

InitBalance ==
    /\ \E n \in 0..MaxBalancePlayers : players \in {RegistryOf(n), PairedRegistry(n)}
    /\ groups = emptyGroups
    /\ teams = <<>>
    /\ holeAssignments = emptyAssignments
    /\ settings = defaultSettings
    /\ interactiveDraftState = NoDraft
    /\ localStorage = NoStorage
    /\ isGrouped = FALSE
    /\ awaitingAnimation = 0
    /\ nextRef = Len(players) + 1
    /\ ret = Ret("init", TRUE)

\* the change listener of the balance toggle
BalanceToggle ==
    \E checked \in BOOLEAN : updateSetting("balanceTeams", checked)
BalanceFinalize ==
    /\ interactiveDraftState.exists
          => Len(teams) + interactiveDraftState.numTeams <= MaxBalanceTeams
    /\ finalizeDraftedTeams

NextBalance ==
    \/ BalanceToggle
    \/ groupPlayersHandler
    \/ initializeInteractiveDraft
    \/ makeInteractiveDraftPick
    \/ BalanceFinalize

SpecBalance == InitBalance /\ [][NextBalance]_vars

(***************************************************************************)
(* Claims about the balanced pick, checked under SpecBalance               *)
(***************************************************************************)
\* |partialHandicapSoFar + candidateHandicap + remainingRounds * avg - target|
\* for the team and round of the draft state, times the denominators of avg
\* and target
Distance(state, candidate) ==
    LET members == state.draftedTeamsData[state.currentTeamIndex + 1].members
        partialHandicapSoFar == SumHandicaps(members)
        remainingRounds == 3 - state.currentRoundIndex
        avg == state.avgPlayerHandicap
        target == state.targetTeamHandicap
        scaled == (partialHandicapSoFar + getNumericHandicap(candidate)) * avg.den * target.den
                  + remainingRounds * avg.num * target.den
                  - target.num * avg.den
    IN  IF scaled < 0 THEN 0 - scaled ELSE scaled
PickIsBalanced ==
    (ret'.op = "makeInteractiveDraftPick" /\ ret'.ok) =>
        LET pre == interactiveDraftState
            post == interactiveDraftState'
            letter == <<"D", "C", "B", "A">>[pre.currentRoundIndex + 1]
            pool == pre.availableGroups[letter]
            picked == post.draftedTeamsData[pre.currentTeamIndex + 1].members[SlotOf(letter)]
        IN  \E j \in 1..Len(pool) :
               /\ pool[j] = picked
               /\ post.availableGroups[letter] = RemoveAt(pool, j)
               /\ (settings.balanceTeams /\ letter \in {"C", "B", "A"}) =>
                     /\ \A k \in 1..Len(pool) : Distance(pre, pool[j]) <= Distance(pre, pool[k])
                     /\ \A k \in 1..(j - 1) : Distance(pre, pool[k]) > Distance(pre, pool[j])
\* C23: with balancing enabled and the round being C, B or A, the pick is the
\* pool candidate of least |partialHandicapSoFar + candidateHandicap
\* + remainingRounds * avgPlayerHandicap - targetTeamHandicap|, the one of the
\* lowest pool index among equal minima; with balancing disabled, or in
\* round D, the pick is some candidate of the pool.
C23_BalancedPick == [][PickIsBalanced]_vars
\* a balanced draft of two teams has made its first pick of round C, after
\* the first team took the second candidate of pool D in round D
C23_Witness ==
    /\ ret.op = "makeInteractiveDraftPick" /\ ret.ok
    /\ settings.balanceTeams
    /\ interactiveDraftState.exists
    /\ interactiveDraftState.numTeams = 2
    /\ interactiveDraftState.avgPlayerHandicap.num > 0
    /\ FilledSlots(interactiveDraftState) = 3
    /\ interactiveDraftState.draftedTeamsData[1].members[3] # NullPlayer
    /\ interactiveDraftState.draftedTeamsData[1].members[4] = GroupsOf(players).D[2]

(***************************************************************************)
(* SpecPersist: saving, loading and resetting between changes of a small   *)
(* session, a draft in progress among them; the                            *)
(* browser's storage starts empty, with a text that does not parse, with   *)
(* the text null, or with an earlier session                               *)
(***************************************************************************)
InitPersist ==
    /\ \E n \in 0..MaxPersistPlayers : players = RegistryOf(n)
    /\ groups = emptyGroups
    /\ teams = <<>>
    /\ holeAssignments = emptyAssignments
    /\ settings = defaultSettings
    /\ interactiveDraftState = NoDraft
    /\ localStorage \in {NoStorage, CorruptStorage, NullStorage, SavedSession}
    /\ isGrouped = FALSE
    /\ awaitingAnimation = 0
    /\ nextRef = Len(players) + 1
    /\ ret = Ret("init", TRUE)

PersistSelectTeam ==
    /\ canFormTeam => Len(teams) < MaxPersistTeams
    /\ selectTeam
PersistAssign == assignTeamToHole(1, 1)
PersistToggle == \E checked \in BOOLEAN : updateSetting("balanceTeams", checked)

NextPersist ==
    \/ groupPlayersHandler
    \/ PersistSelectTeam
    \/ PersistAssign
    \/ PersistToggle
    \/ initializeInteractiveDraft
    \/ makeInteractiveDraftPick
    \/ resetAllHandler
    \/ saveToLocalStorage
    \/ loadFromLocalStorage

SpecPersist == InitPersist /\ [][NextPersist]_vars

(***************************************************************************)
(* Claims about failing loads and saves, checked under SpecPersist         *)
(***************************************************************************)
FailedPersistenceChangesNothing ==
    /\ (ret'.op = "loadFromLocalStorage"
        /\ (~localStorage.present \/ ~localStorage.parses)) => ~ret'.ok
    /\ (ret'.op \in {"loadFromLocalStorage", "saveToLocalStorage"} /\ ~ret'.ok) =>
          /\ ~ret'.threw
          /\ UNCHANGED <<players, groups, teams, holeAssignments, settings>>
\* C27: a loadFromLocalStorage that fails, because the key is missing or the
\* stored text does not parse, reports the failure and leaves players,
\* groups, teams, hole assignments and settings exactly as they were; so
\* does a saveToLocalStorage that fails.
C27_FailedLoadSaveChangesNothing == [][FailedPersistenceChangesNothing]_vars
\* a load failed on a text that does not parse, in a session with a team on
\* hole 1
C27_Witness ==
    /\ ret.op = "loadFromLocalStorage" /\ ~ret.ok
    /\ localStorage = CorruptStorage
    /\ Len(players) = 4
    /\ Len(teams) = 1
    /\ 1 \in DOMAIN holeAssignments

(***************************************************************************)
(* The pools of a draft, checked under SpecDraft                           *)
(***************************************************************************)
\* the pool the next pick of the draft takes from
CurrentPool(state) == state.availableGroups[draftOrder[state.currentRoundIndex + 1]]
PoolNotEmpty ==
    (interactiveDraftState.exists
     /\ FilledSlots(interactiveDraftState) < 4 * interactiveDraftState.numTeams) =>
        /\ interactiveDraftState.currentRoundIndex < 4
        /\ Len(CurrentPool(interactiveDraftState)) > 0
PickFailsOnEmptyPoolOnly ==
    (/\ ret'.op = "makeInteractiveDraftPick"
     /\ interactiveDraftState.exists
     /\ interactiveDraftState.currentRoundIndex < 4) =>
        (ret'.ok <=> Len(CurrentPool(interactiveDraftState)) > 0)
\* C24: makeInteractiveDraftPick fails when the pool of the current round's
\* group is empty, and in a draft created by initializeInteractiveDraft none
\* of the first 4 x numTeams picks finds its pool empty, whatever operations
\* run between the picks.
C24_PoolNeverEmpty == []PoolNotEmpty /\ [][PickFailsOnEmptyPoolOnly]_vars
\* the last pick of a draft of two teams, during which selectTeam formed a
\* team from the live groups
C24_Witness ==
    /\ ret.op = "makeInteractiveDraftPick" /\ ret.ok
    /\ interactiveDraftState.exists
    /\ interactiveDraftState.numTeams = 2
    /\ FilledSlots(interactiveDraftState) = 8
    /\ Len(teams) = 1
    /\ Len(groups.D) = 1

(***************************************************************************)
(* Handlers of the app controller                                          *)
(***************************************************************************)
\* the names dataModel.js exports; the UI controller and the app controller
\* reach the data model through `import * as DataModel`, where every other
\* name is undefined
PublicAPI ==
    {"getDoubleStackedHoles", "getPlayers", "getGroups", "getTeams", "getHoleAssignments",
     "getSettings", "setPlayers", "setGroups", "setTeams", "setHoleAssignments",
     "updateSetting", "resetAll", "addPlayer", "removePlayer", "groupPlayers", "selectTeam",
     "addTeamAndRemovePlayers", "canFormTeam", "findTeamById", "assignTeamToHole",
     "removeTeamFromHole", "getAssignedTeamIds", "getUnassignedTeams", "autoAssignTeams",
     "randomizeTeamAssignments", "processCSV", "saveToLocalStorage", "loadFromLocalStorage",
     "initializeInteractiveDraft", "makeInteractiveDraftPick", "finalizeDraftedTeams",
     "calculateTeamHandicap"}

\* addPlayerHandler: validateNameInputUI() and validateHandicapInputUI() run
\* first, on the raw texts.  They call DataModel.validatePlayerName and
\* DataModel.validateHandicap; calling a name the module does not export
\* throws a TypeError, which ends the handler.  Otherwise a failed
\* validation stops the handler before any data-model call, and after a
\* successful addPlayer on a grouped session come resetGroupsUI(),
\* setGroups(empty) and setTeams([])
addPlayerHandler(nameInput, handicapInput) ==
    IF "validatePlayerName" \notin PublicAPI \/ "validateHandicap" \notin PublicAPI
    THEN /\ ret' = Threw("addPlayer")
         /\ UNCHANGED <<players, groups, teams, holeAssignments, settings,
                        interactiveDraftState, localStorage, isGrouped,
                        awaitingAnimation, nextRef>>
    ELSE IF ~validatePlayerName(nameInput) \/ ~validateHandicap(handicapInput).valid
    THEN UNCHANGED vars
    ELSE LET name == Trim(nameInput)
             handicap == Trim(handicapInput)
             handicapValidation == validateHandicap(handicap)
         IN  IF ~validatePlayerName(name) \/ ~handicapValidation.valid
             THEN /\ ret' = Ret("addPlayer", FALSE)
                  /\ UNCHANGED <<players, groups, teams, holeAssignments, settings,
                                 interactiveDraftState, localStorage, isGrouped,
                                 awaitingAnimation, nextRef>>
             ELSE /\ players' = Append(players,
                                    [ref |-> nextRef, name |-> Trim(name),
                                     handicap |-> handicapValidation.value,
                                     isPlus |-> handicapValidation.isPlus])
                  /\ nextRef' = nextRef + 1
                  /\ ret' = Ret("addPlayer", TRUE)
                  /\ IF isGrouped
                     THEN /\ isGrouped' = FALSE
                          /\ groups' = emptyGroups
                          /\ teams' = <<>>
                     ELSE UNCHANGED <<isGrouped, groups, teams>>
                  /\ UNCHANGED <<holeAssignments, settings, interactiveDraftState,
                                 localStorage, awaitingAnimation>>

\* the click listener of a player's remove button (index is the data-index
\* of the list item): after the confirm dialog, removePlayer(index), then
\* on a grouped session the same reset as after an add
removePlayerHandler(index) ==
    \E confirmed \in BOOLEAN :
        IF ~confirmed
        THEN UNCHANGED vars
        ELSE LET removed == index >= 0 /\ index < Len(players)
             IN  /\ players' = IF removed THEN RemoveAt(players, index + 1) ELSE players
                 /\ interactiveDraftState' =
                       IF removed THEN NoDraft ELSE interactiveDraftState
                 /\ ret' = Ret("removePlayer", removed)
                 /\ IF isGrouped
                    THEN /\ isGrouped' = FALSE
                         /\ groups' = emptyGroups
                         /\ teams' = <<>>
                    ELSE UNCHANGED <<isGrouped, groups, teams>>
                 /\ UNCHANGED <<holeAssignments, settings, localStorage,
                                awaitingAnimation, nextRef>>

\* the click listener of the load button: loadFromLocalStorage(), and after
\* a successful load UIState.isGrouped = (teams.length > 0)
loadButtonHandler ==
    IF ~localStorage.present \/ ~localStorage.parses \/ IsNull(localStorage)
    THEN /\ ret' = Ret("loadFromLocalStorage", FALSE)
         /\ UNCHANGED <<players, groups, teams, holeAssignments, settings,
                        interactiveDraftState, localStorage, isGrouped,
                        awaitingAnimation, nextRef>>
    ELSE LET parsedData == localStorage.data
             base == ParseBase(interactiveDraftState)
         IN  /\ players' = ParsedPlayers(parsedData, base)
             /\ groups' = ParsedGroups(parsedData, base)
             /\ teams' = ParsedTeams(parsedData, base)
             /\ holeAssignments' = parsedData.holeAssignments
             /\ settings' = parsedData.settings
             /\ isGrouped' = (Len(parsedData.teams) > 0)
             /\ ret' = Ret("loadFromLocalStorage", TRUE)
             /\ UNCHANGED <<interactiveDraftState, localStorage,
                            awaitingAnimation, nextRef>>

\* selectTeamHandler up to its await: it returns at once on a session that
\* is not grouped or cannot form a team; otherwise it starts the animation.
\* (The animation only reads the groups, for display.  The handler disables
\* the select button; groupPlayersHandler and the load handler enable it
\* again, also during an animation.  The button is not modelled: a second
\* call may start at any moment.)
selectTeamHandlerStart ==
    IF ~isGrouped \/ ~canFormTeam
    THEN UNCHANGED vars
    ELSE /\ awaitingAnimation' = awaitingAnimation + 1
         /\ UNCHANGED <<players, groups, teams, holeAssignments, settings,
                        interactiveDraftState, localStorage, isGrouped, nextRef, ret>>

\* mutant: a selection that fails after the animation empties the team list
selectTeamHandlerResumeClearsTeams ==
    /\ awaitingAnimation > 0
    /\ awaitingAnimation' = awaitingAnimation - 1
    /\ IF ~canFormTeam
       THEN /\ ret' = Ret("selectTeam", FALSE)
            /\ teams' = <<>>
            /\ UNCHANGED <<players, groups, holeAssignments, settings,
                           interactiveDraftState, localStorage, isGrouped, nextRef>>
       ELSE \E iA \in 1..Len(groups.A), iB \in 1..Len(groups.B),
               iC \in 1..Len(groups.C), iD \in 1..Len(groups.D) :
               /\ groups' = SelectOnce(groups, teams, iA, iB, iC, iD).groups
               /\ teams' = SelectOnce(groups, teams, iA, iB, iC, iD).teams
               /\ ret' = Ret("selectTeam", TRUE)
               /\ UNCHANGED <<players, holeAssignments, settings,
                              interactiveDraftState, localStorage, isGrouped, nextRef>>

\* selectTeamHandler after its await: DataModel.selectTeam() on the store as
\* it is now, whatever the animation returned
selectTeamHandlerResume ==
    /\ awaitingAnimation > 0
    /\ awaitingAnimation' = awaitingAnimation - 1
    /\ IF ~canFormTeam
       THEN /\ ret' = Ret("selectTeam", FALSE)
            /\ UNCHANGED <<players, groups, teams, holeAssignments, settings,
                           interactiveDraftState, localStorage, isGrouped, nextRef>>
       ELSE \E iA \in 1..Len(groups.A), iB \in 1..Len(groups.B),
               iC \in 1..Len(groups.C), iD \in 1..Len(groups.D) :
               /\ groups' = SelectOnce(groups, teams, iA, iB, iC, iD).groups
               /\ teams' = SelectOnce(groups, teams, iA, iB, iC, iD).teams
               /\ ret' = Ret("selectTeam", TRUE)
               /\ UNCHANGED <<players, holeAssignments, settings,
                              interactiveDraftState, localStorage, isGrouped, nextRef>>

(***************************************************************************)
(* SpecSession: the handlers of the players tab in any order on a session  *)
(* of up to MaxSessionPlayers players, with up to MaxAwaiting team         *)
(* selections in their animation; the browser's storage is empty or holds  *)
(* a grouped session of four players; the teams formed are put on the    *)
(* holes by the auto-assign button                                         *)
(***************************************************************************)
\* a session saved right after four players were grouped
SavedGroupedSession ==
    Stored(BlobOf(RegistryOf(4), GroupsOf(RegistryOf(4)), <<>>, emptyAssignments,
                  defaultSettings))

InitSession ==
    /\ players = RegistryOf(MaxSessionPlayers - 1)
    /\ groups = emptyGroups
    /\ teams = <<>>
    /\ holeAssignments = emptyAssignments
    /\ settings = defaultSettings
    /\ interactiveDraftState = NoDraft
    /\ localStorage \in {NoStorage, SavedGroupedSession}
    /\ isGrouped = FALSE
    /\ awaitingAnimation = 0
    /\ nextRef = Len(players) + 1
    /\ ret = Ret("init", TRUE)

\* the texts typed: a name and a handicap that pass, and a handicap that
\* does not
SessionAddPlayer ==
    \E handicapInput \in {<<"x">>, <<"+", "2", ".", "5">>} :
        /\ validateHandicap(handicapInput).valid
              => (Len(players) < MaxSessionPlayers /\ nextRef <= MaxSessionPlayers)
        /\ addPlayerHandler(<<" ", "N", "g", ",", "P", " ">>, handicapInput)
SessionRemovePlayer ==
    /\ Len(players) > 0
    /\ \E index \in {0, Len(players) - 1} : removePlayerHandler(index)
\* the files chosen: the line A,B,10 alone, and followed by the line C,D,bad
SessionImport ==
    \E lines \in {<<<<"A", ",", "B", ",", "1", "0">>>>, ScenarioLines} :
        /\ Len(lines) = 1
              => (Len(players) < MaxSessionPlayers /\ nextRef <= MaxSessionPlayers)
        /\ processCSVHandler(Join(lines, <<"\n">>))
SessionSelectTeamStart ==
    /\ (isGrouped /\ canFormTeam) => awaitingAnimation < MaxAwaiting
    /\ selectTeamHandlerStart
SessionSelectTeamResume ==
    /\ canFormTeam => Len(teams) < MaxSessionTeams
    /\ selectTeamHandlerResume
SessionFinalize ==
    /\ interactiveDraftState.exists
          => Len(teams) + interactiveDraftState.numTeams <= MaxSessionTeams
    /\ finalizeDraftedTeams

NextSession ==
    \/ SessionAddPlayer
    \/ SessionRemovePlayer
    \/ SessionImport
    \/ resetAllHandler
    \/ groupPlayersHandler
    \/ loadButtonHandler
    \/ SessionSelectTeamStart
    \/ SessionSelectTeamResume
    \/ initializeInteractiveDraft
    \/ makeInteractiveDraftPick
    \/ SessionFinalize
    \/ autoAssignTeams

SpecSession == InitSession /\ [][NextSession]_vars

(***************************************************************************)
(* Claims about the handlers, checked under SpecSession                    *)
(***************************************************************************)
DraftAbsentAfter ==
    /\ (ret'.op \in {"finalizeDraftedTeams", "resetAll", "groupPlayers", "removePlayer"}
        /\ ret'.ok /\ ret' # ret) => ~interactiveDraftState'.exists
    \* the controller's reset of groups and teams after an add or an import
    /\ (ret'.op \in {"addPlayer", "processCSV"} /\ ret'.ok /\ isGrouped /\ ~isGrouped')
          => ~interactiveDraftState'.exists
    /\ (~interactiveDraftState.exists /\ interactiveDraftState'.exists)
          => (ret'.op = "initializeInteractiveDraft" /\ ret'.ok)
\* C22: the draft state exists only between a successful
\* initializeInteractiveDraft and the next finalize, data reset or regroup:
\* it is absent right after a successful finalizeDraftedTeams, resetAll,
\* groupPlayers or removePlayer, and right after the controller's reset of
\* groups and teams that follows adding or importing players while grouped.
C22_DraftLifecycle == [][DraftAbsentAfter]_vars

SelectionAfterDelay ==
    (ret'.op = "selectTeam" /\ awaitingAnimation' = awaitingAnimation - 1) =>
        IF ret'.ok
        THEN /\ Len(teams') = Len(teams) + 1
             /\ SubSeq(teams', 1, Len(teams)) = teams
             /\ Len(teams'[Len(teams')].members) = 4
             /\ \A m \in 1..4 :
                   /\ teams'[Len(teams')].members[m] # NullPlayer
                   /\ Includes(groups[GroupLetters[m]], teams'[Len(teams')].members[m])
             /\ UNCHANGED <<players, holeAssignments, settings, interactiveDraftState>>
        ELSE UNCHANGED <<players, groups, teams, holeAssignments, settings,
                         interactiveDraftState>>
\* C30: the animation delay of selectTeamHandler only gates when selectTeam
\* is called: whatever handlers (add, remove, import, reset all, group
\* players, load, a second team selection) run during the delay, the
\* selectTeam call made afterwards either appends exactly one complete team
\* of players that are in the live groups at the time of the call, or fails
\* and leaves the store unchanged.
C30_SelectionAfterDelay == [][SelectionAfterDelay]_vars
\* a selection succeeded on the groups of a session that was loaded during
\* its animation (the load left isGrouped false)
C30_Witness ==
    /\ ret.op = "selectTeam" /\ ret.ok
    /\ ~isGrouped
    /\ awaitingAnimation = 0
    /\ Len(teams) = 1
    /\ teams[1].members[1].ref > 100

(***************************************************************************)
(* Claims about players, teams and holes, checked under SpecSession        *)
(***************************************************************************)
\* the players of a team (a player is known by its object, ref)
MemberRefs(team) == {team.members[m].ref : m \in 1..Len(team.members)}
\* the players in the live groups
GroupedRefs ==
    UNION {{groups[g][i].ref : i \in 1..Len(groups[g])} : g \in Range(GroupLetters)}
\* C31: in every reachable state no player is a member of two teams, and no
\* player is a member of a team and in a live group at the same time.
C31_PlayerInOnePlace ==
    /\ \A t, u \in 1..Len(teams) : t # u => MemberRefs(teams[t]) \cap MemberRefs(teams[u]) = {}
    /\ \A t \in 1..Len(teams) : MemberRefs(teams[t]) \cap GroupedRefs = {}

\* C32: in every reachable state every team id in the hole assignments is
\* the id of a team of the team list, also after the team list was emptied
\* because a player was added, imported or removed while grouped.
C32_AssignedTeamsExist ==
    \A h \in DOMAIN holeAssignments :
        \A i \in 1..Len(holeAssignments[h]) : findTeamById(teams, holeAssignments[h][i])

(***************************************************************************)
(* The add-player form, checked under SpecSession                          *)
(***************************************************************************)
AddFormAsStated ==
    addPlayerHandler(<<" ", "N", "g", ",", "P", " ">>, <<"+", "2", ".", "5">>) =>
        /\ ~ret'.threw
        /\ ret'.op = "addPlayer" /\ ret'.ok
        /\ Len(players') = Len(players) + 1
        /\ SubSeq(players', 1, Len(players)) = players
\* C38: submitting the add-player form with a name that contains a comma
\* and a handicap text that validateHandicap accepts completes the UI-side
\* validation without error, reaches DataModel.addPlayer and adds exactly
\* one player to the registry.
C38_AddFormAddsPlayer == [][AddFormAsStated]_vars

(***************************************************************************)
(* Group sizes after grouping, checked under SpecGroup                     *)
(***************************************************************************)
\* C33: after a successful groupPlayers on N >= 4 players each of the four
\* groups is non-empty, so canFormTeam() is true and a team can be formed.
C33_GroupsNonEmpty ==
    (JustGrouped /\ Len(players) >= 4) =>
        /\ \A g \in Range(GroupLetters) : Len(groups[g]) > 0
        /\ canFormTeam

(***************************************************************************)
(* The draft and the store, checked under SpecStore                        *)
(***************************************************************************)
DraftStepsKeepStore ==
    /\ ret'.op \in {"initializeInteractiveDraft", "makeInteractiveDraftPick"}
          => UNCHANGED <<players, groups, teams, holeAssignments>>
    /\ (/\ ret'.op \in {"initializeInteractiveDraft", "makeInteractiveDraftPick",
                         "finalizeDraftedTeams"}
        /\ (groups' # groups \/ teams' # teams))
          => (ret'.op = "finalizeDraftedTeams" /\ ret'.ok)
\* C34: the draft pools are copies of the live groups: every
\* initializeInteractiveDraft and every makeInteractiveDraftPick, successful
\* or not, leaves players, live groups, teams and hole assignments
\* unchanged; of the draft operations only a successful finalizeDraftedTeams
\* changes the live groups and the team list.
C34_DraftLeavesStore == [][DraftStepsKeepStore]_vars
\* a pick was just made from a pool while the live groups still hold all
\* four players, a team is in the list and a hole is taken
C34_Witness ==
    /\ ret.op = "makeInteractiveDraftPick" /\ ret.ok
    /\ canFormTeam
    /\ Len(interactiveDraftState.availableGroups.D) < Len(groups.D)
    /\ Len(teams) > 0
    /\ holeAssignments # emptyAssignments

(***************************************************************************)
(* Random and sequential assignment compared, checked under SpecHoles      *)
(***************************************************************************)
\* the team ids of a board in the order the two passes place them: the
\* entries at position pos of the holes hole..18
RECURSIVE EntriesFrom(_, _, _)
EntriesFrom(ha, hole, pos) ==
    IF hole > NumHoles THEN <<>>
    ELSE (IF Len(TeamsOnHole(ha, hole)) >= pos THEN <<TeamsOnHole(ha, hole)[pos]>> ELSE <<>>)
            \o EntriesFrom(ha, hole + 1, pos)
PlacingOrder(ha) == EntriesFrom(ha, 1, 1) \o EntriesFrom(ha, 1, 2)
\* C35: right after randomizeTeamAssignments every hole holds as many teams
\* as autoAssignTeams would put there for the same team list, the assigned
\* teams are min(number of teams, 28) different teams of the list, and the
\* board is the one the two passes of autoAssignTeams produce on the teams
\* taken in some other order.
C35_RandomizeLikeAuto ==
    ret.op = "randomizeTeamAssignments" =>
        LET order == PlacingOrder(holeAssignments)
        IN  /\ \A h \in 1..NumHoles :
                  Len(TeamsOnHole(holeAssignments, h))
                     = Len(TeamsOnHole(AutoAssignResult(teams), h))
            /\ DOMAIN holeAssignments \subseteq 1..NumHoles
            /\ Len(order) = Min(Len(teams), 28)
            /\ \A i, j \in 1..Len(order) : i # j => order[i] # order[j]
            /\ Range(order) \subseteq {teams[i].id : i \in 1..Len(teams)}
            /\ TwoPasses([i \in 1..Len(order) |-> [id |-> order[i]]]) = holeAssignments
\* thirty teams were just assigned at random: the first team of the list is
\* left out, and the board is not the one of autoAssignTeams
C35_Witness ==
    /\ ret.op = "randomizeTeamAssignments"
    /\ Len(teams) = 30
    /\ teams[1].id \notin getAssignedTeamIds(holeAssignments)
    /\ holeAssignments # AutoAssignResult(teams)

(***************************************************************************)
(* The balancing targets of a draft, checked under SpecBalance             *)
(***************************************************************************)
\* the effective handicap of a player: a plus handicap counts negative
EffectiveHandicap(p) == IF p.isPlus THEN 0 - p.handicap ELSE p.handicap
\* the sum of the effective handicaps of the first n players of ps
RECURSIVE TotalOfFirst(_, _)
TotalOfFirst(ps, n) ==
    IF n = 0 THEN 0 ELSE TotalOfFirst(ps, n - 1) + EffectiveHandicap(ps[n])
\* the sum of the totals of the first n teams of ts
RECURSIVE TeamTotalsOfFirst(_, _)
TeamTotalsOfFirst(ts, n) ==
    IF n = 0 THEN 0
    ELSE TeamTotalsOfFirst(ts, n - 1) + TotalOfFirst(ts[n].members, Len(ts[n].members))
\* the fraction x equals a / b
IsQuotient(x, a, b) == x.den # 0 /\ x.num * b = a * x.den
\* C36: a draft initialised with balancing enabled has avgPlayerHandicap =
\* the mean effective handicap of all players of the registry and
\* targetTeamHandicap = 4 x avgPlayerHandicap if the team list is empty,
\* otherwise the mean of the totals of the teams of the list; initialised
\* with balancing disabled it has 0 for both.
C36_BalancingTargets ==
    (ret.op = "initializeInteractiveDraft" /\ ret.ok) =>
        LET state == interactiveDraftState
            total == TotalOfFirst(players, Len(players))
        IN  IF settings.balanceTeams
            THEN /\ IsQuotient(state.avgPlayerHandicap, total, Len(players))
                 /\ IF Len(teams) = 0
                    THEN IsQuotient(state.targetTeamHandicap, 4 * total, Len(players))
                    ELSE IsQuotient(state.targetTeamHandicap,
                                    TeamTotalsOfFirst(teams, Len(teams)), Len(teams))
            ELSE /\ IsQuotient(state.avgPlayerHandicap, 0, 1)
                 /\ IsQuotient(state.targetTeamHandicap, 0, 1)
\* a draft was just initialised with balancing enabled while a team exists
\* whose total is not 4 x the players' average
C36_Witness ==
    /\ ret.op = "initializeInteractiveDraft" /\ ret.ok
    /\ settings.balanceTeams
    /\ Len(teams) > 0
    /\ ~IsQuotient(interactiveDraftState.targetTeamHandicap,
                   4 * TotalOfFirst(players, Len(players)), Len(players))

(***************************************************************************)
(* Reset all, checked under SpecPersist                                    *)
(***************************************************************************)
SettingKeys == {"balanceTeams", "maxHandicapDiff", "startFormat", "startTime", "timeInterval"}
ResetAllAsStated ==
    ret'.op = "resetAll" =>
        /\ players' = <<>>
        /\ \A g \in Range(GroupLetters) : groups'[g] = <<>>
        /\ teams' = <<>>
        /\ DOMAIN holeAssignments' = {}
        /\ ~interactiveDraftState'.exists
        /\ DOMAIN settings' = SettingKeys
        /\ \A key \in SettingKeys : settings'[key] = settings[key]
\* C37: resetAll empties players, the four groups, teams and hole
\* assignments and discards the draft state, and leaves each of the settings
\* balanceTeams, maxHandicapDiff, startFormat, startTime and timeInterval
\* as it was.
C37_ResetAllKeepsSettings == [][ResetAllAsStated]_vars
\* all data was just reset in a session whose balance toggle is on
C37_Witness ==
    /\ ret.op = "resetAll"
    /\ settings.balanceTeams
    /\ players = <<>>

(***************************************************************************)
(* Save and load, checked under SpecPersist                                *)
(***************************************************************************)
\* the store holds the values of the stored text (the text changes only by
\* a successful save, so these are the values at the save)
StoreIsAsSaved ==
    /\ UnrefSeq(players) = localStorage.data.players
    /\ \A g \in Range(GroupLetters) : UnrefSeq(groups[g]) = localStorage.data.groups[g]
    /\ Len(teams) = Len(localStorage.data.teams)
    /\ \A t \in 1..Len(teams) :
          /\ teams[t].id = localStorage.data.teams[t].id
          /\ UnrefSeq(teams[t].members) = localStorage.data.teams[t].members
    /\ holeAssignments = localStorage.data.holeAssignments
    /\ settings = localStorage.data.settings
\* C39: right after a successful loadFromLocalStorage players, groups, teams,
\* hole assignments and settings have the values they had at the save that
\* wrote the stored text, whatever was done in between, and no draft is in
\* progress: a draft started before the load is not carried over.
C39_LoadRestoresSave ==
    (ret.op = "loadFromLocalStorage" /\ ret.ok) =>
        /\ StoreIsAsSaved
        /\ ~interactiveDraftState.exists

====
